---------------------------- MODULE Spec2Model ----------------------------
(***************************************************************************)
(* A model of the IPTS data-stream decoders of iptsd.                      *)
(*                                                                         *)
(* Two decoders live in the repository:                                    *)
(*   - the Block-based parser (src/src/ipts/parser.cpp, class Block and    *)
(*     class Parser of src/unnamed/part_001), which decodes ipts_data      *)
(*     buffers, legacy payloads and HID containers;                        *)
(*   - the Reader-based parser (src/src/ipts/parser.hpp), which decodes    *)
(*     HID frames, legacy frames and report lists.                         *)
(*                                                                         *)
(* A decode pass is a run of a stack machine: every frame of `stack` is    *)
(* an active call, holding the cursor (Block / Reader) that call works     *)
(* on.  The bytes of the input buffer are the input of the pass: a field   *)
(* is chosen when the decoder reads it (every byte is read at most once,   *)
(* the cursors only move forward).                                         *)
(***************************************************************************)
EXTENDS Integers, Naturals, Sequences, FiniteSets, TLC

VARIABLES
    buflen,     \* data.size(): the length of the input buffer
    stack,      \* the active calls, outermost first; each holds its cursor
    err,        \* "none", or "out_of_range" once the pass has thrown
    out,        \* the callbacks invoked in this pass, in order
    lastOp,     \* the last cursor operation / decoded record (observation)
    bp,         \* the fields of the Block-based Parser (part_001)
    rp,         \* the fields of the Reader-based Parser (parser.hpp)
    mode        \* the entry point of the current pass, "idle" before the first

vars == <<buflen, stack, err, out, lastOp, bp, rp, mode>>

-----------------------------------------------------------------------------
(* Bounds of the model *)

\* Largest buffer of the cursor-only specification SpecBlock.
MaxBlkBuf == 4
\* Most cursors alive at once in SpecBlock.
MaxBlocks == 2

\* Stands for a size_t value that a wrapped unsigned subtraction yields
\* (2^64 - k in the program): larger than every buffer length.
HugeSize == 1000000

\* The bytes [lo, hi) of the buffer, read from the cursor made for the
\* container [clo, chi): kept as offsets from the container's first byte,
\* with the container's length.
ReadOf(lo, hi, clo, chi) == [lo |-> lo - clo, hi |-> hi - clo, len |-> chi - clo]

\* What an action records of itself in lastOp: the bytes it read (reads, as
\* ranges [lo, hi)) from the cursor made for the container [clo, chi), and the
\* cursor call it made: n bytes asked of cursor `pre`, leaving it `post` and
\* yielding `sub`; size, type = the fields of the record header the call was
\* made for; threw = the action ended in std::out_of_range.
MkOp(op, reads, clo, chi, n, pre, post, sub, threw) ==
    [op |-> op, reads |-> {ReadOf(r.lo, r.hi, clo, chi) : r \in reads},
     n |-> n, size |-> n, type |-> 0, pre |-> pre, post |-> post, sub |-> sub,
     threw |-> threw]

NoBlk == [index |-> 0, end |-> 0]

\* What a step of a decode pass records: the bytes it read and whether it threw.
Did(op, reads, clo, chi, threw) ==
    MkOp(op, reads, clo, chi, 0, NoBlk, NoBlk, NoBlk, threw)

\* op, having also read `more` (reads of a cursor nested in op's).
AlsoRead(op, more, threw) ==
    [op EXCEPT !.reads = @ \cup more, !.threw = threw]

NoOp == Did("none", {}, 0, 0, FALSE)

-----------------------------------------------------------------------------
(* class Block: a cursor [index, end) over the buffer *)

\* Block::Block(data, index, end)
Block(index, end) == [index |-> index, end |-> end]

BlockRemainingOffByOne(b) == b.end - b.index + 1

\* Block::remaining()
BlockRemaining(b) == b.end - b.index

\* A skip that leaves the cursor where it is.
BlockSkipStays(b, n) ==
    IF n > BlockRemaining(b)
    THEN [ok |-> FALSE, blk |-> b]
    ELSE [ok |-> TRUE, blk |-> b]

\* Block::read<T>() with sizeof(T) = n; Block::skip(n): the same cursor effect.
\* ok = FALSE is the std::out_of_range thrown; the cursor is then untouched.
BlockSkip(b, n) ==
    IF n > BlockRemaining(b)
    THEN [ok |-> FALSE, blk |-> b]
    ELSE [ok |-> TRUE, blk |-> [b EXCEPT !.index = @ + n]]

BlockRead(b, n) == BlockSkip(b, n)

\* The sub-block Block::block(size) builds: Block(data, start, index).
SubBlockWrongEnd(b, n) == Block(b.index, b.end)

SubBlock(b, n) == Block(b.index, b.index + n)

BlockBlockClamp(b, n) ==
    IF n > BlockRemaining(b)
    THEN [ok |-> TRUE, blk |-> [b EXCEPT !.index = b.end],
          sub |-> Block(b.index, b.end)]
    ELSE [ok |-> TRUE, blk |-> [b EXCEPT !.index = @ + n], sub |-> SubBlock(b, n)]

\* Block::block(size)
BlockBlock(b, n) ==
    IF n > BlockRemaining(b)
    THEN [ok |-> FALSE, blk |-> b, sub |-> b]
    ELSE [ok |-> TRUE, blk |-> [b EXCEPT !.index = @ + n], sub |-> SubBlock(b, n)]

\* Block::span(): a view of the unread bytes; the cursor does not move.
BlockSpan(b) == [lo |-> b.index, len |-> b.end - b.index]

-----------------------------------------------------------------------------
(* Wire formats: src/src/ipts/protocol.h *)

IPTS_DATA_TYPE_PAYLOAD == 0
IPTS_DATA_TYPE_VENDOR_DATA == 2
IPTS_DATA_TYPE_HID_REPORT == 3

IPTS_PAYLOAD_FRAME_TYPE_STYLUS == 6
IPTS_PAYLOAD_FRAME_TYPE_HEATMAP == 8

IPTS_REPORT_TYPE_START == 0
IPTS_REPORT_TYPE_HEATMAP_DIM == 3
IPTS_REPORT_TYPE_HEATMAP == 37           \* 0x25
IPTS_REPORT_TYPE_STYLUS_V1 == 16         \* 0x10
IPTS_REPORT_TYPE_STYLUS_V2 == 96         \* 0x60
IPTS_REPORT_TYPE_PEN_DFT_WINDOW == 92    \* 0x5c
IPTS_REPORT_TYPE_PEN_METADATA == 95      \* 0x5f
IPTS_REPORT_TYPE_FREQUENCY_NOISE == 4    \* a report type no parser handles

IPTS_STYLUS_REPORT_MODE_BIT_PROXIMITY == 0
IPTS_STYLUS_REPORT_MODE_BIT_CONTACT == 1
IPTS_STYLUS_REPORT_MODE_BIT_BUTTON == 2
IPTS_STYLUS_REPORT_MODE_BIT_RUBBER == 3

IPTS_HID_REPORT_SINGLETOUCH == 64        \* 0x40

IPTS_MAX_X == 9600
IPTS_MAX_Y == 7200
IPTS_MAX_PRESSURE == 4096

IPTS_DFT_MAX_ROWS == 16
IPTS_DFT_PRESSURE_ROWS == 6
IPTS_DFT_ID_POSITION == 6
IPTS_DFT_ID_BUTTON == 9
IPTS_DFT_ID_PRESSURE == 11

\* sizeof of the packed wire records
SizeofIptsData == 64
SizeofIptsPayload == 12
SizeofIptsPayloadFrame == 16
SizeofIptsReport == 4
SizeofStylusReport == 8
SizeofStylusDataV2 == 16
SizeofStylusDataV1 == 12
SizeofSingletouch == 5
SizeofHeatmapDim == 8
SizeofReportStart == 8
SizeofHidContainer == 7
SizeofHidHeatmap == 9
SizeofDftWindow == 12
SizeofDftRow == 48
SizeofIthcHeader == 12

\* IPTS_HID_REPORT_IS_CONTAINER(x)
IPTS_HID_REPORT_IS_CONTAINER(x) == x \in {7, 8, 10, 11, 12, 13, 26, 28}

\* std::bitset: bit `bit` of an unsigned value
TestBit(v, bit) == (v \div (2 ^ bit)) % 2 = 1

\* size_t arithmetic a - b of the program (64 bits wide): a wrapped
\* difference is a value beyond every buffer length.
SizeSub(a, b) == IF a >= b THEN a - b ELSE HugeSize - (b - a)

-----------------------------------------------------------------------------
(* The parsers' fields *)

\* class StylusData (part_001), all fields zero / false
StylusData0 ==
    [proximity |-> FALSE, contact |-> FALSE, button |-> FALSE, rubber |-> FALSE,
     timestamp |-> 0, x |-> 0, y |-> 0, pressure |-> 0, altitude |-> 0,
     azimuth |-> 0, serial |-> 0]

\* class Heatmap (part_001); data is the span, kept as its place and length
Heatmap0 ==
    [width |-> 0, height |-> 0, z_max |-> 0, timestamp |-> 0,
     data |-> [lo |-> 0, len |-> 0]]

\* class Parser (part_001) after construction
BpInit ==
    [heatmap |-> Heatmap0, stylus |-> StylusData0,
     stylus_real |-> 0, stylus_imag |-> 0, num_cols |-> 0, num_rows |-> 0,
     invert_x |-> FALSE, invert_y |-> FALSE]

NoDim == [set |-> FALSE, height |-> 0, width |-> 0, z_max |-> 0]
NoStart == [set |-> FALSE, timestamp |-> 0]

\* class Parser (parser.hpp) after construction: m_dim, m_time, m_pen_meta.
\* m_dim.age is not a field of the program: it records in which pass m_dim
\* was last assigned (0 the pass under way, 1 the one before, 2 earlier or
\* never).  m_pen_meta.parsed is not a field of the program either: it tells
\* whether parse_pen_metadata has assigned m_pen_meta since construction.
RpInit ==
    [m_dim |-> [height |-> 0, width |-> 0, z_max |-> 0, age |-> 2],
     m_time |-> 0,
     m_pen_meta |-> [seq_num |-> 0, data_type |-> 0, group_counter |-> 0,
                     parsed |-> FALSE]]

-----------------------------------------------------------------------------
(* The call stack of a decode pass *)

\* The locals of a call that outlive one step.
NoLoc == [ignore |-> FALSE, root |-> 0, start |-> NoStart, dim |-> NoDim,
          serial |-> 0, kind |-> 0, elements |-> 0]

\* An active call fn working on cursor blk, which was made for the bytes
\* [lo, hi) of the buffer; cnt is its loop counter.
Frame(fn, blk, lo, hi, cnt, loc) ==
    [fn |-> fn, blk |-> blk, lo |-> lo, hi |-> hi, cnt |-> cnt, loc |-> loc]

Top == stack[Len(stack)]
Below == SubSeq(stack, 1, Len(stack) - 1)

\* The state an action leaves: the calls, the callbacks so far, the parser.
Res(stk, o, p, op) ==
    [stack |-> stk, out |-> o, p |-> p, err |-> "none", op |-> op]

\* std::out_of_range leaves every call of the pass.
Thrown(o, p, op) ==
    [stack |-> << >>, out |-> o, p |-> p, err |-> "out_of_range", op |-> op]

\* b.read<Header>() followed by b.block(size) on cursor b.
HeaderThenBlock(b, hdr, size) ==
    LET r1 == BlockRead(b, hdr) IN
    IF ~r1.ok
    THEN [ok |-> FALSE, blk |-> b, sub |-> NoBlk, reads |-> {}, pre |-> b,
          n |-> hdr, lo |-> 0, hi |-> 0]
    ELSE LET r2 == BlockBlock(r1.blk, size) IN
         [ok |-> r2.ok, blk |-> r2.blk,
          sub |-> IF r2.ok THEN r2.sub ELSE NoBlk,
          reads |-> {[lo |-> b.index, hi |-> b.index + hdr]},
          pre |-> r1.blk, n |-> size,
          lo |-> r1.blk.index, hi |-> r1.blk.index + size]

\* The record of a step that read a header and asked for its payload.
OpOf(name, f, h) ==
    MkOp(name, h.reads, f.lo, f.hi, h.n, h.pre, h.blk, h.sub, ~h.ok)

\* op, made for a record whose header declares `size` (and `type`).
Declared(op, size) == [op EXCEPT !.size = size]
Typed(op, type, size) == [op EXCEPT !.type = type, !.size = size]

\* The values a size field is given when rem bytes follow it: none, all that
\* is left, one too many, and those of `fits` that leave bytes for a sibling.
SizeSet(rem, fits) ==
    {0, rem, rem + 1} \cup {n \in fits : n < rem}

Max0(n) == IF n < 0 THEN 0 ELSE n

-----------------------------------------------------------------------------
(* SpecBlock: any sequence of cursor operations on the blocks of a buffer *)

BlockSizes == (0 .. (MaxBlkBuf + 1)) \cup {HugeSize}

Cell(b) == [fn |-> "block", blk |-> b]

InitBlock ==
    /\ buflen \in 0 .. MaxBlkBuf
    /\ stack = << Cell(Block(0, buflen)) >>      \* Parser::block()
    /\ err = "none"
    /\ out = << >>
    /\ lastOp = NoOp
    /\ bp = BpInit
    /\ rp = RpInit
    /\ mode = "block"

\* b.read<T>() on cursor i, sizeof(T) = n
OpRead(i, n) ==
    LET r == BlockRead(stack[i].blk, n) IN
    /\ mode = "block"
    /\ stack' = [stack EXCEPT ![i].blk = r.blk]
    /\ lastOp' = MkOp("read", {}, 0, buflen, n, stack[i].blk, r.blk, NoBlk, ~r.ok)
    /\ UNCHANGED <<buflen, err, out, bp, rp, mode>>

\* b.skip(n) on cursor i
OpSkip(i, n) ==
    LET r == BlockSkip(stack[i].blk, n) IN
    /\ mode = "block"
    /\ stack' = [stack EXCEPT ![i].blk = r.blk]
    /\ lastOp' = MkOp("skip", {}, 0, buflen, n, stack[i].blk, r.blk, NoBlk, ~r.ok)
    /\ UNCHANGED <<buflen, err, out, bp, rp, mode>>

\* b.block(n) on cursor i: the sub-block becomes a cursor of its own
OpBlock(i, n) ==
    LET r == BlockBlock(stack[i].blk, n) IN
    /\ mode = "block"
    /\ Len(stack) < MaxBlocks \/ ~r.ok
    /\ stack' = IF r.ok
                THEN Append([stack EXCEPT ![i].blk = r.blk], Cell(r.sub))
                ELSE stack
    /\ lastOp' = MkOp("block", {}, 0, buflen, n, stack[i].blk, r.blk,
                       IF r.ok THEN r.sub ELSE NoBlk, ~r.ok)
    /\ UNCHANGED <<buflen, err, out, bp, rp, mode>>

\* b.span() on cursor i
OpSpan(i) ==
    LET s == BlockSpan(stack[i].blk) IN
    /\ mode = "block"
    /\ stack' = stack
    /\ lastOp' = MkOp("span", {}, 0, buflen, s.len, stack[i].blk, stack[i].blk,
                       Block(s.lo, s.lo + s.len), FALSE)
    /\ UNCHANGED <<buflen, err, out, bp, rp, mode>>

NextBlock ==
    \/ \E i \in DOMAIN stack, n \in BlockSizes : OpRead(i, n)
    \/ \E i \in DOMAIN stack, n \in BlockSizes : OpSkip(i, n)
    \/ \E i \in DOMAIN stack, n \in BlockSizes : OpBlock(i, n)
    \/ \E i \in DOMAIN stack : OpSpan(i)

SpecBlock == InitBlock /\ [][NextBlock]_vars

-----------------------------------------------------------------------------
(* The Block-based parser: src/src/ipts/parser.cpp *)

\* Buffer lengths of the Block-based parser's passes.
MaxIptsBuf == 136
IptsBufLens == {0, MaxIptsBuf}

\* Most frames / stylus elements a header of the model declares.
MaxFrames == 2
MaxElements == 2

IptsModes == {"parse", "parse_loop", "parse_ithc"}

\* The stylus samples of the model's inputs, as the fields on the wire.
WireSample(m, x, y, pressure, altitude, azimuth, timestamp) ==
    [mode |-> m, x |-> x, y |-> y, pressure |-> pressure,
     altitude |-> altitude, azimuth |-> azimuth, timestamp |-> timestamp]

WireSamples ==
    { WireSample(1, 4800, 3600, 0, 0, 0, 1),          \* hovering
      WireSample(7, 9600, 7200, 1024, 9000, 0, 2),    \* contact, button
      WireSample(2, 0, 0, 100, 0, 0, 3),              \* contact bit, no proximity
      WireSample(9, 65535, 65535, 65535, 0, 0, 4) }   \* every field at its largest

Serials == {7}

Emit(o, cb, val, lo, hi) ==
    Append(o, [cb |-> cb, val |-> val, lo |-> lo, hi |-> hi])

\* A reset that also forgets the pen.
BpResetStylus(p) ==
    [p EXCEPT !.heatmap.data = [lo |-> 0, len |-> 0], !.stylus.proximity = FALSE]

\* Parser::reset()
BpReset(p) == [p EXCEPT !.heatmap.data = [lo |-> 0, len |-> 0]]

InitIpts ==
    /\ buflen \in IptsBufLens
    /\ stack = << >>
    /\ err = "none"
    /\ out = << >>
    /\ lastOp = NoOp
    /\ bp = BpInit
    /\ rp = RpInit
    /\ mode = "idle"

Apply(r) ==
    /\ stack' = r.stack
    /\ out' = r.out
    /\ bp' = r.p
    /\ err' = r.err
    /\ lastOp' = r.op
    /\ UNCHANGED <<buflen, rp, mode>>

Running(fn) ==
    /\ mode \in IptsModes
    /\ stack # << >>
    /\ Top.fn = fn

\* Parser::parse(): reset(), then one parse(b, false) on the whole buffer.
IptsParseStart ==
    /\ mode \in IptsModes \cup {"idle"}
    /\ stack = << >>
    /\ mode' = "parse"
    /\ stack' = << Frame("parse", Block(0, buflen), 0, buflen, 0, NoLoc) >>
    /\ bp' = BpReset(bp)
    /\ err' = "none"
    /\ out' = << >>
    /\ lastOp' = NoOp
    /\ UNCHANGED <<buflen, rp>>

\* Parser::parse_loop(): reset(), then parse(b, false) while bytes remain.
IptsParseLoopStart ==
    /\ mode \in IptsModes \cup {"idle"}
    /\ stack = << >>
    /\ mode' = "parse_loop"
    /\ stack' = << Frame("parse_loop", Block(0, buflen), 0, buflen, 0, NoLoc) >>
    /\ bp' = BpReset(bp)
    /\ err' = "none"
    /\ out' = << >>
    /\ lastOp' = NoOp
    /\ UNCHANGED <<buflen, rp>>

\* A parse that never ignores a truncated message.
ParseDataStrict(f, type, size) ==
    LET h == HeaderThenBlock(f.blk, SizeofIptsData, size)
        op == OpOf("parse", f, h)
        base == IF f.fn = "parse_loop"
                THEN Below \o << [f EXCEPT !.blk = h.blk] >>
                ELSE Below
        callee(fn) == Frame(fn, h.sub, h.lo, h.hi, 0, NoLoc)
    IN  IF ~h.ok THEN Thrown(out, bp, op)
        ELSE IF type = IPTS_DATA_TYPE_PAYLOAD
        THEN Res(base \o << callee("parse_payload") >>, out, bp, op)
        ELSE IF type = IPTS_DATA_TYPE_HID_REPORT
        THEN Res(base \o << callee("parse_hid") >>, out, bp, op)
        ELSE Res(base, out, bp, op)

\* Parser::parse(Block &b, bool ignore_truncated) on the cursor of frame f.
ParseData(f, type, size) ==
    LET r1 == BlockRead(f.blk, SizeofIptsData)
        h == HeaderThenBlock(f.blk, SizeofIptsData, size)
        op == OpOf("parse", f, h)
        base == IF f.fn = "parse_loop"
                THEN Below \o << [f EXCEPT !.blk = h.blk] >>
                ELSE Below
        callee(fn) == Frame(fn, h.sub, h.lo, h.hi, 0, NoLoc)
    IN  IF ~r1.ok THEN Thrown(out, bp, op)
        ELSE IF f.loc.ignore /\ size > BlockRemaining(r1.blk)
        THEN Res(Below, out, bp,
                 Declared(Did("parse_truncated", h.reads, f.lo, f.hi, FALSE), size))
        ELSE IF ~h.ok THEN Thrown(out, bp, op)
        ELSE IF type = IPTS_DATA_TYPE_PAYLOAD
        THEN Res(base \o << callee("parse_payload") >>, out, bp, op)
        ELSE IF type = IPTS_DATA_TYPE_HID_REPORT
        THEN Res(base \o << callee("parse_hid") >>, out, bp, op)
        ELSE Res(base, out, bp, op)

DataTypes ==
    {IPTS_DATA_TYPE_PAYLOAD, IPTS_DATA_TYPE_HID_REPORT, IPTS_DATA_TYPE_VENDOR_DATA}

IptsParse ==
    /\ Running("parse") \/ (Running("parse_loop") /\ BlockRemaining(Top.blk) > 0)
    /\ \E type \in DataTypes,
          size \in SizeSet(Max0(BlockRemaining(Top.blk) - SizeofIptsData), {8}) :
          Apply(ParseData(Top, type, size))

\* parse_loop: no bytes remain, the loop and the pass end.
IptsParseLoopDone ==
    /\ Running("parse_loop")
    /\ BlockRemaining(Top.blk) = 0
    /\ Apply(Res(Below, out, bp, NoOp))

\* Parser::parse_payload: the ipts_payload header.
ParsePayload(f, frames) ==
    LET r == BlockRead(f.blk, SizeofIptsPayload)
        op == Did("parse_payload",
                  IF r.ok THEN {[lo |-> f.blk.index, hi |-> r.blk.index]} ELSE {},
                  f.lo, f.hi, ~r.ok)
    IN  IF ~r.ok THEN Thrown(out, bp, op)
        ELSE Res(Below \o << [f EXCEPT !.fn = "payload_frames", !.blk = r.blk,
                                       !.cnt = frames] >>, out, bp, op)

IptsParsePayload ==
    /\ Running("parse_payload")
    /\ \E frames \in 0 .. MaxFrames : Apply(ParsePayload(Top, frames))

\* Parser::parse_payload: one iteration of the loop over payload.frames.
PayloadFrame(f, type, size) ==
    LET h == HeaderThenBlock(f.blk, SizeofIptsPayloadFrame, size)
        op == OpOf("payload_frame", f, h)
        base == Below \o << [f EXCEPT !.blk = h.blk, !.cnt = @ - 1] >>
        callee(fn) == Frame(fn, h.sub, h.lo, h.hi, 0, NoLoc)
    IN  IF ~h.ok THEN Thrown(out, bp, op)
        ELSE IF type = IPTS_PAYLOAD_FRAME_TYPE_STYLUS
        THEN Res(base \o << callee("parse_stylus") >>, out, bp, op)
        ELSE IF type = IPTS_PAYLOAD_FRAME_TYPE_HEATMAP
        THEN Res(base \o << callee("container_reports") >>, out, bp, op)
        ELSE Res(base, out, bp, op)

PayloadFrameTypes ==
    {IPTS_PAYLOAD_FRAME_TYPE_STYLUS, IPTS_PAYLOAD_FRAME_TYPE_HEATMAP, 0}

IptsPayloadFrame ==
    /\ Running("payload_frames")
    /\ Top.cnt > 0
    /\ \E type \in PayloadFrameTypes,
          size \in SizeSet(Max0(BlockRemaining(Top.blk) - SizeofIptsPayloadFrame),
                           {SizeofIptsReport + SizeofStylusReport}) :
          Apply(PayloadFrame(Top, type, size))

IptsPayloadDone ==
    /\ Running("payload_frames")
    /\ Top.cnt = 0
    /\ Apply(Res(Below, out, bp, NoOp))

\* Parser::parse_stylus: one iteration of the loop over the reports.
StylusReportHeader(f, type, size) ==
    LET h == HeaderThenBlock(f.blk, SizeofIptsReport, size)
        op == OpOf("parse_stylus", f, h)
        base == Below \o << [f EXCEPT !.blk = h.blk] >>
        callee(kind) == Frame("stylus_report", h.sub, h.lo, h.hi, 0,
                              [NoLoc EXCEPT !.kind = kind])
    IN  IF ~h.ok THEN Thrown(out, bp, op)
        ELSE IF type = IPTS_REPORT_TYPE_STYLUS_V1
        THEN Res(base \o << callee(1) >>, out, bp, op)
        ELSE IF type = IPTS_REPORT_TYPE_STYLUS_V2
        THEN Res(base \o << callee(2) >>, out, bp, op)
        ELSE Res(base, out, bp, op)

StylusReportTypes ==
    {IPTS_REPORT_TYPE_STYLUS_V1, IPTS_REPORT_TYPE_STYLUS_V2,
     IPTS_REPORT_TYPE_FREQUENCY_NOISE}

IptsStylusReportHeader ==
    /\ Running("parse_stylus")
    /\ BlockRemaining(Top.blk) > 0
    /\ \E type \in StylusReportTypes,
          size \in SizeSet(Max0(BlockRemaining(Top.blk) - SizeofIptsReport),
                           {SizeofStylusReport + SizeofStylusDataV1}) :
          Apply(StylusReportHeader(Top, type, size))

IptsStylusDone ==
    /\ Running("parse_stylus")
    /\ BlockRemaining(Top.blk) = 0
    /\ Apply(Res(Below, out, bp, NoOp))

\* Parser::parse_stylus_report_v1 / _v2: the ipts_stylus_report header.
StylusReportBegin(f, elements, serial) ==
    LET r == BlockRead(f.blk, SizeofStylusReport)
        op == Did("stylus_report",
                  IF r.ok THEN {[lo |-> f.blk.index, hi |-> r.blk.index]} ELSE {},
                  f.lo, f.hi, ~r.ok)
    IN  IF ~r.ok THEN Thrown(out, bp, op)
        ELSE Res(Below \o << [f EXCEPT !.fn = "stylus_elements", !.blk = r.blk,
                                       !.cnt = elements, !.loc.serial = serial,
                                       !.loc.elements = elements] >>,
                 out, bp, op)

IptsStylusReportBegin ==
    /\ Running("stylus_report")
    /\ \E elements \in 0 .. MaxElements, serial \in Serials :
          Apply(StylusReportBegin(Top, elements, serial))

\* The StylusData parse_stylus_report_v1 fills from one ipts_stylus_data_v1.
StylusFromV1(serial, d) ==
    [proximity |-> TestBit(d.mode % 256, IPTS_STYLUS_REPORT_MODE_BIT_PROXIMITY),
     contact |-> TestBit(d.mode % 256, IPTS_STYLUS_REPORT_MODE_BIT_CONTACT),
     button |-> TestBit(d.mode % 256, IPTS_STYLUS_REPORT_MODE_BIT_BUTTON),
     rubber |-> TestBit(d.mode % 256, IPTS_STYLUS_REPORT_MODE_BIT_RUBBER),
     timestamp |-> 0, x |-> d.x, y |-> d.y,
     pressure |-> (d.pressure * 4) % 65536,
     altitude |-> 0, azimuth |-> 0, serial |-> serial, mode |-> d.mode]

\* The StylusData parse_stylus_report_v2 fills from one ipts_stylus_data_v2.
StylusFromV2(serial, d) ==
    [proximity |-> TestBit(d.mode, IPTS_STYLUS_REPORT_MODE_BIT_PROXIMITY),
     contact |-> TestBit(d.mode, IPTS_STYLUS_REPORT_MODE_BIT_CONTACT),
     button |-> TestBit(d.mode, IPTS_STYLUS_REPORT_MODE_BIT_BUTTON),
     rubber |-> TestBit(d.mode, IPTS_STYLUS_REPORT_MODE_BIT_RUBBER),
     timestamp |-> d.timestamp, x |-> d.x, y |-> d.y,
     pressure |-> d.pressure,
     altitude |-> d.altitude, azimuth |-> d.azimuth, serial |-> serial,
     mode |-> d.mode]

\* One iteration of the loop over stylus_report.elements: read the sample,
\* fill the StylusData, invoke on_stylus.
StylusElement(f, d) ==
    LET n == IF f.loc.kind = 1 THEN SizeofStylusDataV1 ELSE SizeofStylusDataV2
        r == BlockRead(f.blk, n)
        op == Did("stylus_element",
                  IF r.ok THEN {[lo |-> f.blk.index, hi |-> r.blk.index]} ELSE {},
                  f.lo, f.hi, ~r.ok)
        st == IF f.loc.kind = 1 THEN StylusFromV1(f.loc.serial, d)
                                ELSE StylusFromV2(f.loc.serial, d)
    IN  IF ~r.ok THEN Thrown(out, bp, op)
        ELSE Res(Below \o << [f EXCEPT !.blk = r.blk, !.cnt = @ - 1] >>,
                 Emit(out, "stylus", st, f.lo, f.hi), bp, op)

IptsStylusElement ==
    /\ Running("stylus_elements")
    /\ Top.cnt > 0
    /\ \E d \in WireSamples : Apply(StylusElement(Top, d))

IptsStylusElementsDone ==
    /\ Running("stylus_elements")
    /\ Top.cnt = 0
    /\ Apply(Res(Below, out, bp, NoOp))

\* Parser::parse_ithc(size): reset(), then block().block(size).
IthcStart(size) ==
    LET r == BlockBlock(Block(0, buflen), size)
        op == Did("parse_ithc", {}, 0, buflen, ~r.ok)
    IN  IF ~r.ok THEN Thrown(<< >>, BpReset(bp), op)
        ELSE Res(<< Frame("parse_ithc", r.sub, 0, size, 0, NoLoc) >>, << >>,
                 BpReset(bp), op)

IptsParseIthcStart ==
    /\ mode \in IptsModes \cup {"idle"}
    /\ stack = << >>
    /\ mode' = "parse_ithc"
    /\ \E size \in {0, buflen, buflen + 1} :
          LET r == IthcStart(size) IN
          /\ stack' = r.stack
          /\ out' = r.out
          /\ bp' = r.p
          /\ err' = r.err
          /\ lastOp' = r.op
    /\ UNCHANGED <<buflen, rp>>

\* hdr_size - sizeof hdr that stops at 0.
IthcPaddingClamped(hdr_size) == Max0(hdr_size - SizeofIthcHeader)

\* hdr.hdr_size - sizeof hdr, in size_t.
IthcPadding(hdr_size) == SizeSub(hdr_size, SizeofIthcHeader)

\* parse_ithc: one iteration of the loop over the ithc messages.
IthcMessage(f, hdr_size, size) ==
    LET r1 == BlockRead(f.blk, SizeofIthcHeader)
        r2 == BlockSkip(r1.blk, IthcPadding(hdr_size))
        r3 == BlockBlock(r2.blk, size)
        rd1 == {[lo |-> f.blk.index, hi |-> r1.blk.index]}
        rd2 == rd1 \cup {[lo |-> r1.blk.index, hi |-> r2.blk.index]}
        opA(reads, threw) ==
            Declared(Did("ithc_message", reads, f.lo, f.hi, threw), hdr_size)
    IN  IF ~r1.ok THEN Thrown(out, bp, opA({}, TRUE))
        ELSE IF ~r2.ok THEN Thrown(out, bp, opA(rd1, TRUE))
        ELSE IF ~r3.ok THEN Thrown(out, bp, opA(rd2, TRUE))
        ELSE Res(Below \o << [f EXCEPT !.blk = r3.blk],
                             Frame("parse", r3.sub, r2.blk.index,
                                   r2.blk.index + size, 0,
                                   [NoLoc EXCEPT !.ignore = TRUE]) >>,
                 out, bp, opA(rd2, FALSE))

IptsIthcMessage ==
    /\ Running("parse_ithc")
    /\ BlockRemaining(Top.blk) > 0
    /\ \E hdr_size \in {SizeofIthcHeader, SizeofIthcHeader + 4, 8},
          size \in SizeSet(Max0(BlockRemaining(Top.blk) - SizeofIthcHeader),
                           {SizeofIptsData}) :
          Apply(IthcMessage(Top, hdr_size, size))

IptsIthcDone ==
    /\ Running("parse_ithc")
    /\ BlockRemaining(Top.blk) = 0
    /\ Apply(Res(Below, out, bp, NoOp))

\* Parser::parse_singletouch
ParseSingletouch(f, b, rd, d) ==
    LET r == BlockRead(b, SizeofSingletouch)
        op == Did("parse_singletouch",
                  IF r.ok THEN rd \cup {[lo |-> b.index, hi |-> r.blk.index]} ELSE rd,
                  f.lo, f.hi, ~r.ok)
    IN  IF ~r.ok THEN Thrown(out, bp, op)
        ELSE Res(Below, Emit(out, "singletouch", d, f.lo, f.hi), bp, op)

\* The payload a HID container header declares: root.size - sizeof(root),
\* c.size - sizeof(c), in size_t.
ContainerPayloadWhole(size) == size

ContainerPayload(size) == SizeSub(size, SizeofHidContainer)

\* Parser::parse_hid_container up to the loop: the timestamp, the root
\* container header, the block of the root container.
HidContainerBegin(f, b, rd, root_size) ==
    LET r1 == BlockRead(b, 2)
        h == HeaderThenBlock(r1.blk, SizeofHidContainer, ContainerPayload(root_size))
        rd1 == rd \cup {[lo |-> b.index, hi |-> b.index + 2]}
        op == Declared(AlsoRead(OpOf("parse_hid_container", f, h),
                                {ReadOf(r.lo, r.hi, f.lo, f.hi) : r \in rd1}, ~h.ok),
                       root_size)
    IN  IF ~r1.ok
        THEN Thrown(out, bp, Did("parse_hid_container", rd, f.lo, f.hi, TRUE))
        ELSE IF ~h.ok THEN Thrown(out, bp, op)
        ELSE Res(Below \o << Frame("hid_container", h.sub, h.lo, h.hi, 0,
                                   [NoLoc EXCEPT !.root = root_size]) >>,
                 out, bp, op)

\* Parser::parse_hid
ParseHid(f, report_code, d, root_size) ==
    LET r == BlockRead(f.blk, 1)
        rd == {[lo |-> f.blk.index, hi |-> f.blk.index + 1]}
    IN  IF ~r.ok
        THEN Thrown(out, bp, Did("parse_hid", {}, f.lo, f.hi, TRUE))
        ELSE IF report_code = IPTS_HID_REPORT_SINGLETOUCH
        THEN ParseSingletouch(f, r.blk, rd, d)
        ELSE IF IPTS_HID_REPORT_IS_CONTAINER(report_code)
        THEN HidContainerBegin(f, r.blk, rd, root_size)
        ELSE Res(Below, out, bp, Did("parse_hid", rd, f.lo, f.hi, FALSE))

Singletouches == {[touch |-> 1, x |-> 100, y |-> 200]}

\* The sizes a HID container header declares: the header itself plus a
\* payload, the size of the SP7 packet, and sizes shorter than the header.
ContainerSizes(rem, fits) ==
    {SizeofHidContainer + n : n \in SizeSet(Max0(rem - SizeofHidContainer), fits)}
        \cup {0, 22}

IptsParseHid ==
    /\ Running("parse_hid")
    /\ \/ \E d \in Singletouches :
             Apply(ParseHid(Top, IPTS_HID_REPORT_SINGLETOUCH, d, 0))
       \/ \E root_size \in ContainerSizes(BlockRemaining(Top.blk) - 3, {}) :
             Apply(ParseHid(Top, 7, CHOOSE d \in Singletouches : TRUE, root_size))
       \/ Apply(ParseHid(Top, 0, CHOOSE d \in Singletouches : TRUE, 0))

\* parse_hid_container, container type 1: the heatmap of a HID heatmap
\* container becomes heatmap.data.
HidHeatmap(f, h, op, hm_size) ==
    LET r1 == BlockRead(h.sub, SizeofHidHeatmap)
        r2 == BlockBlock(r1.blk, hm_size)
        rd == {ReadOf(h.sub.index, r1.blk.index, h.lo, h.hi)}
        base == Below \o << [f EXCEPT !.blk = h.blk] >>
    IN  IF ~r1.ok THEN Thrown(out, bp, AlsoRead(op, {}, TRUE))
        ELSE IF ~r2.ok THEN Thrown(out, bp, AlsoRead(op, rd, TRUE))
        ELSE Res(base, out, [bp EXCEPT !.heatmap.data = BlockSpan(r2.sub)],
                 AlsoRead(op, rd, FALSE))

\* parse_hid_container: one iteration of the loop over the root container.
HidContainer(f, type, size, hm_size) ==
    LET r1 == BlockRead(f.blk, SizeofHidContainer)
        h == HeaderThenBlock(f.blk, SizeofHidContainer, ContainerPayload(size))
        op == Declared(OpOf("hid_container", f, h), size)
        base == Below \o << [f EXCEPT !.blk = h.blk] >>
    IN  IF ~r1.ok THEN Thrown(out, bp, op)
        ELSE IF f.loc.root = 22 /\ type = 255 /\ size = 11
        THEN Res(Below, out, bp,
                 Did("hid_container_sp7", h.reads, f.lo, f.hi, FALSE))
        ELSE IF ~h.ok THEN Thrown(out, bp, op)
        ELSE IF type = 1 THEN HidHeatmap(f, h, op, hm_size)
        ELSE IF type = 255
        THEN Res(base \o << Frame("container_reports", h.sub, h.lo, h.hi, 0, NoLoc) >>,
                 out, bp, op)
        ELSE Res(base, out, bp, op)

IptsHidContainer ==
    /\ Running("hid_container")
    /\ BlockRemaining(Top.blk) > 0
    /\ \E size \in ContainerSizes(BlockRemaining(Top.blk), {SizeofHidHeatmap + 4})
                      \cup {11} :
          \/ \E hm_size \in {0, 4, 5} : Apply(HidContainer(Top, 1, size, hm_size))
          \/ \E type \in {255, 0} : Apply(HidContainer(Top, type, size, 0))

IptsHidContainerDone ==
    /\ Running("hid_container")
    /\ BlockRemaining(Top.blk) = 0
    /\ Apply(Res(Below, out, bp, NoOp))

-----------------------------------------------------------------------------
(* DFT pen processing: src/src/ipts/dft.cpp *)

IPTS_DFT_POSITION_MIN_MAG == 2000
IPTS_DFT_BUTTON_MIN_MAG == 1000

\* A double that an interpolation returns: NAN, or the fraction n / d (d > 0).
NaN == [nan |-> TRUE, n |-> 0, d |-> 1]
Frac(n, d) == [nan |-> FALSE, n |-> n, d |-> d]

\* What process_dft uses of a DFT window: the header's data_type and
\* num_rows; of row 0 of each axis the magnitude (xmag, ymag) and the centre
\* component, summed over both axes (re, im); and the values that
\* dft_interpolate_position (px, py, in columns / rows) and
\* dft_interpolate_frequency (pf) compute from the rows.
DftWin(data_type, num_rows, xmag, ymag, re, im, px, py, pf) ==
    [data_type |-> data_type, num_rows |-> num_rows, xmag |-> xmag, ymag |-> ymag,
     re |-> re, im |-> im, px |-> px, py |-> py, pf |-> pf]

\* A stop that reports the pen unconditionally, also when it was already out
\* of proximity.
StopStylusAlways(p, o, lo, hi) ==
    LET st == [p.stylus EXCEPT !.proximity = FALSE, !.contact = FALSE,
                               !.button = FALSE, !.rubber = FALSE,
                               !.pressure = 0]
    IN  [p |-> [p EXCEPT !.stylus = st], out |-> Emit(o, "stylus", st, lo, hi)]

\* Parser::stop_stylus
StopStylus(p, o, lo, hi) ==
    IF p.stylus.proximity
    THEN LET st == [p.stylus EXCEPT !.proximity = FALSE, !.contact = FALSE,
                                    !.button = FALSE, !.rubber = FALSE,
                                    !.pressure = 0]
         IN  [p |-> [p EXCEPT !.stylus = st], out |-> Emit(o, "stylus", st, lo, hi)]
    ELSE [p |-> p, out |-> o]

\* (uint16_t)(std::clamp(v / div, 0., 1.) * max + .5), with 1 - x before the
\* clamp when inverted; v = n / d.  A zero divisor makes the quotient
\* infinite, or NaN for 0 / 0, whose conversion to uint16_t is undefined: any
\* 16-bit value may result.
ScalePosition(v, div, invert, max) ==
    IF div = 0
    THEN IF v.n = 0 THEN {0, max, 65535}
         ELSE IF (v.n > 0) = ((div >= 0) /\ ~invert) THEN {max} ELSE {0}
    ELSE LET sgn == IF div < 0 THEN -1 ELSE 1
             a0 == v.n * sgn
             b == v.d * div * sgn
             a == IF invert THEN b - a0 ELSE a0
             c == IF a < 0 THEN 0 ELSE IF a > b THEN b ELSE a
         IN  {(2 * c * max + b) \div (2 * b)}

\* process_dft, case IPTS_DFT_ID_POSITION
DftPosition(p, o, w, lo, hi, invert_x, invert_y) ==
    IF /\ w.num_rows > 0
       /\ p.num_cols # 0
       /\ p.num_rows # 0
       /\ w.xmag > IPTS_DFT_POSITION_MIN_MAG
       /\ w.ymag > IPTS_DFT_POSITION_MIN_MAG
    THEN LET p1 == [p EXCEPT !.stylus_real = w.re, !.stylus_imag = w.im] IN
         IF ~w.px.nan /\ ~w.py.nan
         THEN { LET st == [p1.stylus EXCEPT !.proximity = TRUE, !.x = x, !.y = y]
                IN  [p |-> [p1 EXCEPT !.stylus = st],
                     out |-> Emit(o, "stylus", st, lo, hi)]
                : x \in ScalePosition(w.px, p.num_cols - 1, invert_x, IPTS_MAX_X),
                  y \in ScalePosition(w.py, p.num_rows - 1, invert_y, IPTS_MAX_Y) }
         ELSE {StopStylus(p1, o, lo, hi)}
    ELSE {StopStylus(p, o, lo, hi)}

DftButtonNoSnapshot(p, o, w, lo, hi) ==
    IF w.num_rows > 0
    THEN LET strong == /\ w.xmag > IPTS_DFT_BUTTON_MIN_MAG
                       /\ w.ymag > IPTS_DFT_BUTTON_MIN_MAG
             btn == p.stylus_real * w.re + p.stylus_imag * w.im
         IN  {[p |-> [p EXCEPT !.stylus.button = strong /\ btn < 0,
                               !.stylus.rubber = strong /\ btn > 0],
               out |-> o]}
    ELSE {[p |-> p, out |-> o]}

\* A button window that sets the eraser but never takes it back.
DftButtonKeepsRubber(p, o, w, lo, hi) ==
    IF w.num_rows > 0
    THEN LET strong == /\ w.xmag > IPTS_DFT_BUTTON_MIN_MAG
                       /\ w.ymag > IPTS_DFT_BUTTON_MIN_MAG
             btn == p.stylus_real * w.re + p.stylus_imag * w.im
         IN  {[p |-> [p EXCEPT !.stylus.button = strong /\ btn < 0,
                               !.stylus.rubber = @ \/ (strong /\ btn > 0)],
               out |-> o]}
    ELSE {[p |-> p, out |-> o]}

\* The product of two ints, exact, as 256 * h + l with 0 <= l < 256.
WideProduct(a, c) ==
    LET hi == (a \div 256) * c
        lo == (a % 256) * c
    IN  [h |-> hi + (lo \div 256), l |-> lo % 256]

WideSum(u, v) ==
    [h |-> u.h + v.h + ((u.l + v.l) \div 256), l |-> (u.l + v.l) % 256]

\* u lies within int: -2^31 <= 256 * h + l <= 2^31 - 1.
FitsInt(u) == u.h >= -8388608 /\ u.h <= 8388607

WideSign(u) == IF u.h < 0 THEN -1 ELSE IF u.h = 0 /\ u.l = 0 THEN 0 ELSE 1

\* The sign of int btn = stylus_real * (...) + stylus_imag * (...): that of
\* the exact value when both products and their sum fit in int; a signed
\* overflow is undefined, and btn may then have any sign.
BtnSigns(p, w) ==
    LET a == WideProduct(p.stylus_real, w.re)
        b == WideProduct(p.stylus_imag, w.im)
    IN  IF FitsInt(a) /\ FitsInt(b) /\ FitsInt(WideSum(a, b))
        THEN {WideSign(WideSum(a, b))}
        ELSE {-1, 0, 1}

\* process_dft, case IPTS_DFT_ID_BUTTON
DftButton(p, o, w, lo, hi) ==
    IF w.num_rows > 0
    THEN LET strong == /\ w.xmag > IPTS_DFT_BUTTON_MIN_MAG
                       /\ w.ymag > IPTS_DFT_BUTTON_MIN_MAG
         IN  { LET button == strong /\ btn < 0
                   rubber == strong /\ btn > 0
                   p1 == [p EXCEPT !.stylus.button = button]
                   s == IF rubber # p1.stylus.rubber
                        THEN StopStylus(p1, o, lo, hi)
                        ELSE [p |-> p1, out |-> o]
               IN  [p |-> [s.p EXCEPT !.stylus.rubber = rubber], out |-> s.out]
               : btn \in IF strong THEN BtnSigns(p, w) ELSE {0} }
    ELSE {[p |-> p, out |-> o]}

DftPressureKeepsValue(p, o, w) ==
    IF w.num_rows >= IPTS_DFT_PRESSURE_ROWS
    THEN {[p |-> [p EXCEPT !.stylus.contact =
                               ~w.pf.nan /\ (w.pf.d - w.pf.n) * IPTS_MAX_PRESSURE > w.pf.d],
           out |-> o]}
    ELSE {[p |-> p, out |-> o]}

\* A pressure window that reports the snapshot it has updated.
DftPressureReports(p, o, w) ==
    IF w.num_rows >= IPTS_DFT_PRESSURE_ROWS
    THEN LET over == ~w.pf.nan /\ (w.pf.d - w.pf.n) * IPTS_MAX_PRESSURE > w.pf.d
             st == [p.stylus EXCEPT !.contact = over,
                                    !.pressure = IF over THEN IPTS_MAX_PRESSURE ELSE 0]
         IN  {[p |-> [p EXCEPT !.stylus = st], out |-> Emit(o, "stylus", st, 0, 0)]}
    ELSE {[p |-> p, out |-> o]}

\* A pressure window that is satisfied with any row.
DftPressureAnyRows(p, o, w) ==
    IF w.num_rows >= 1
    THEN LET over == ~w.pf.nan /\ (w.pf.d - w.pf.n) * IPTS_MAX_PRESSURE > w.pf.d
         IN  {[p |-> [p EXCEPT !.stylus.contact = over,
                               !.stylus.pressure = IF over THEN IPTS_MAX_PRESSURE ELSE 0],
               out |-> o]}
    ELSE {[p |-> p, out |-> o]}

\* process_dft, case IPTS_DFT_ID_PRESSURE: p = (1 - pf) * IPTS_MAX_PRESSURE
DftPressure(p, o, w) ==
    IF w.num_rows >= IPTS_DFT_PRESSURE_ROWS
    THEN LET num == (w.pf.d - w.pf.n) * IPTS_MAX_PRESSURE   \* p = num / pf.d
             over == ~w.pf.nan /\ num > w.pf.d              \* p > 1
             ip == num \div w.pf.d                          \* (int)p
         IN  IF over
             THEN {[p |-> [p EXCEPT !.stylus.contact = TRUE,
                                    !.stylus.pressure =
                                        IF ip > IPTS_MAX_PRESSURE
                                        THEN IPTS_MAX_PRESSURE ELSE ip],
                    out |-> o]}
             ELSE {[p |-> [p EXCEPT !.stylus.contact = FALSE,
                                    !.stylus.pressure = 0],
                    out |-> o]}
    ELSE {[p |-> p, out |-> o]}

\* Parser::process_dft: the results it can leave (one, unless a conversion
\* is undefined).
ProcessDft(p, o, w, lo, hi, invert_x, invert_y) ==
    IF w.data_type = IPTS_DFT_ID_POSITION
    THEN DftPosition(p, o, w, lo, hi, invert_x, invert_y)
    ELSE IF w.data_type = IPTS_DFT_ID_BUTTON THEN DftButton(p, o, w, lo, hi)
    ELSE IF w.data_type = IPTS_DFT_ID_PRESSURE THEN DftPressure(p, o, w)
    ELSE {[p |-> p, out |-> o]}

-----------------------------------------------------------------------------
(* SpecDft: any sequence of DFT windows given to process_dft *)

\* In SpecDft lastOp keeps the window of the last process_dft call and the
\* number of callbacks the call invoked.

\* Most callbacks a run of SpecDft records.
MaxDftEmits == 3

\* The DFT windows of the model's inputs: a position window that is decoded,
\* one too weak, one whose interpolation fails and one without rows; button
\* windows in phase with the position signal (eraser), in opposite phase
\* (button) and too weak; pressure windows with a frequency in range, at the
\* resting frequency, with an undefined interpolation and with too few rows.
DftWindows ==
    { DftWin(IPTS_DFT_ID_POSITION, 1, 3000, 3000, 100, 0, Frac(1, 1), Frac(1, 2), NaN),
      DftWin(IPTS_DFT_ID_POSITION, 1, 2000, 3000, 100, 0, Frac(1, 1), Frac(1, 2), NaN),
      DftWin(IPTS_DFT_ID_POSITION, 1, 3000, 3000, 100, 0, NaN, Frac(1, 2), NaN),
      DftWin(IPTS_DFT_ID_POSITION, 0, 0, 0, 0, 0, NaN, NaN, NaN),
      DftWin(IPTS_DFT_ID_BUTTON, 1, 1500, 1500, 100, 0, NaN, NaN, NaN),
      DftWin(IPTS_DFT_ID_BUTTON, 1, 1500, 1500, -100, 0, NaN, NaN, NaN),
      DftWin(IPTS_DFT_ID_BUTTON, 1, 1000, 1500, 100, 0, NaN, NaN, NaN),
      DftWin(IPTS_DFT_ID_PRESSURE, 6, 20000, 20000, 0, 0, NaN, NaN, Frac(1, 2)),
      DftWin(IPTS_DFT_ID_PRESSURE, 6, 20000, 20000, 0, 0, NaN, NaN, Frac(1, 1)),
      DftWin(IPTS_DFT_ID_PRESSURE, 6, 20000, 20000, 0, 0, NaN, NaN, NaN),
      DftWin(IPTS_DFT_ID_PRESSURE, 5, 20000, 20000, 0, 0, NaN, NaN, Frac(1, 2)) }

\* The size of the antenna grid a HEATMAP_DIM report announces.
DftGrids == { [width |-> 3, height |-> 2], [width |-> 0, height |-> 0] }

\* Windows of which some have centre components of -32768 on both axes
\* (re = -65536), beside the plain position, button and pressure windows.
EdgeWindows ==
    { DftWin(IPTS_DFT_ID_POSITION, 1, 3000, 3000, 100, 0, Frac(1, 1), Frac(1, 2), NaN),
      DftWin(IPTS_DFT_ID_POSITION, 1, 3000, 3000, -65536, 0, Frac(1, 1), Frac(1, 2), NaN),
      DftWin(IPTS_DFT_ID_BUTTON, 1, 1500, 1500, -65536, 0, NaN, NaN, NaN),
      DftWin(IPTS_DFT_ID_BUTTON, 1, 1500, 1500, 100, 0, NaN, NaN, NaN),
      DftWin(IPTS_DFT_ID_PRESSURE, 6, 20000, 20000, 0, 0, NaN, NaN, Frac(1, 2)) }

\* Grids of which one has a single column of antennas.
NarrowGrids == { [width |-> 3, height |-> 2], [width |-> 1, height |-> 2] }

InitDft ==
    /\ buflen = 0
    /\ stack = << >>
    /\ err = "none"
    /\ out = << >>
    /\ lastOp = [op |-> "none", w |-> DftWin(0, 0, 0, 0, 0, 0, NaN, NaN, NaN),
                 emitted |-> 0]
    /\ bp \in {[BpInit EXCEPT !.invert_x = i] : i \in BOOLEAN}
    /\ rp = RpInit
    /\ mode = "dft"

\* parse_container_reports, case IPTS_REPORT_TYPE_HEATMAP_DIM: the grid that
\* process_dft scales positions by.
HeatmapDimOf(grids) ==
    /\ mode = "dft"
    /\ \E g \in grids :
          bp' = [bp EXCEPT !.num_cols = g.width, !.num_rows = g.height]
    /\ lastOp' = [lastOp EXCEPT !.op = "heatmap_dim", !.emitted = 0]
    /\ UNCHANGED <<buflen, stack, err, out, rp, mode>>

DftHeatmapDim == HeatmapDimOf(DftGrids)

DftNarrowHeatmapDim == HeatmapDimOf(NarrowGrids)

\* Parser::process_dft on one window.
DftProcessOf(windows) ==
    /\ mode = "dft"
    /\ \E w \in windows :
       \E r \in ProcessDft(bp, out, w, 0, 0, bp.invert_x, bp.invert_y) :
          /\ Len(r.out) <= MaxDftEmits
          /\ bp' = r.p
          /\ out' = r.out
          /\ lastOp' = [op |-> "process_dft", w |-> w,
                         emitted |-> Len(r.out) - Len(out)]
    /\ UNCHANGED <<buflen, stack, err, rp, mode>>

DftProcess == DftProcessOf(DftWindows)

DftEdgeProcess == DftProcessOf(EdgeWindows)

NextDft ==
    \/ DftHeatmapDim
    \/ DftProcess

SpecDft == InitDft /\ [][NextDft]_vars

\* SpecEdge: any sequence of DFT windows whose components may lie at the
\* ends of int16, between dimension reports that may announce a grid one
\* antenna wide.
NextEdge ==
    \/ DftNarrowHeatmapDim
    \/ DftEdgeProcess

SpecEdge == InitDft /\ [][NextEdge]_vars

-----------------------------------------------------------------------------
(* SpecTwice: Parser::parse() called twice on the same buffer of reports *)

\* Most reports in the container of the buffer.
MaxTwiceReports == 2

\* The containers of the buffer: sequences of HEATMAP_DIM and PEN_DFT_WINDOW
\* reports.
TwiceInputs ==
    LET reports == {[dim |-> g] : g \in DftGrids} \cup {[w |-> w] : w \in DftWindows}
    IN  UNION {[1 .. n -> reports] : n \in 0 .. MaxTwiceReports}

\* In SpecTwice stack holds the reports of the buffer, buflen counts those
\* the pass under way has handled and lastOp keeps the callbacks of the first
\* pass.
InitTwice ==
    /\ stack \in TwiceInputs
    /\ buflen = 0
    /\ err = "none"
    /\ out = << >>
    /\ lastOp = [op |-> "reset", first |-> << >>]
    /\ bp = BpReset(BpInit)
    /\ rp = RpInit
    /\ mode = "first"

\* parse_container_reports: the next report of the container, a
\* HEATMAP_DIM or a PEN_DFT_WINDOW given to process_dft.
TwiceReport ==
    /\ mode \in {"first", "second"}
    /\ buflen < Len(stack)
    /\ LET rec == stack[buflen + 1] IN
       IF "dim" \in DOMAIN rec
       THEN /\ bp' = [bp EXCEPT !.num_cols = rec.dim.width,
                                !.num_rows = rec.dim.height]
            /\ out' = out
       ELSE \E r \in ProcessDft(bp, out, rec.w, buflen, buflen + 1,
                                 bp.invert_x, bp.invert_y) :
               /\ bp' = r.p
               /\ out' = r.out
    /\ buflen' = buflen + 1
    /\ lastOp' = [lastOp EXCEPT !.op = "report"]
    /\ UNCHANGED <<stack, err, rp, mode>>

\* The first pass is over; Parser::parse() on the same buffer: reset().
TwiceAgain ==
    /\ mode = "first"
    /\ buflen = Len(stack)
    /\ mode' = "second"
    /\ buflen' = 0
    /\ out' = << >>
    /\ bp' = BpReset(bp)
    /\ lastOp' = [op |-> "reset", first |-> out]
    /\ UNCHANGED <<stack, err, rp>>

NextTwice ==
    \/ TwiceReport
    \/ TwiceAgain

SpecTwice == InitTwice /\ [][NextTwice]_vars

-----------------------------------------------------------------------------
(* SpecDaemon: the read-and-parse loops of the daemons *)

\* Most buffers a run of SpecDaemon reads.
MaxReads == 52

\* daemon::main: "if we receive 50 continuous errors ... the program should
\* exit".
ErrorLimit == 50

\* In SpecDaemon stack holds the one call of the daemon's main with its
\* locals, buflen counts the buffers read from the device and err is the
\* outcome of the last parse.  failed is not a local of the program: it
\* records that some parse of the run threw.  Nor is continuous: it records
\* that every iteration since errors was last 0 raised an exception.
DaemonCall(fn) ==
    [fn |-> fn, errors |-> 0, should_exit |-> FALSE, failed |-> FALSE,
     continuous |-> TRUE]

\* What a step of the loop did, and with which buffer (0: none).
DaemonOp(op, buffer) == [op |-> op, buffer |-> buffer]

InitDaemon ==
    /\ mode = "daemon"
    /\ stack \in {<< DaemonCall(fn) >> : fn \in {"main", "main_ithc"}}
    /\ buflen = 0
    /\ err = "none"
    /\ out = << >>
    /\ lastOp = DaemonOp("none", 0)
    /\ bp = BpInit
    /\ rp = RpInit

DaemonRunning(fn) ==
    /\ mode = "daemon"
    /\ stack # << >>
    /\ stack[1].fn = fn

\* A loop that gives up at the first error.
TooManyErrorsAtOnce(errors) == errors >= 1

\* daemon::main: the condition that ends the loop before the next read.
TooManyErrors(errors) == errors >= ErrorLimit

\* The call after a parse that threw (or not).
AfterParse(c, threw, errors) ==
    [c EXCEPT !.failed = @ \/ threw, !.errors = errors,
              !.continuous = IF errors = 0 THEN TRUE ELSE @]

\* SIGTERM / SIGINT: should_exit = true.
DaemonSignal ==
    /\ DaemonRunning("main")
    /\ ~stack[1].should_exit
    /\ stack' = << [stack[1] EXCEPT !.should_exit = TRUE] >>
    /\ lastOp' = DaemonOp("signal", 0)
    /\ UNCHANGED <<buflen, err, out, bp, rp, mode>>

\* daemon::main: one iteration of while (!should_exit) that reaches the try
\* block: device.read, then nothing for a report without touch data, else
\* parser.parse; any exception counts as an error.
DaemonIteration ==
    /\ DaemonRunning("main")
    /\ ~stack[1].should_exit
    /\ ~TooManyErrors(stack[1].errors)
    /\ buflen < MaxReads
    /\ buflen' = buflen + 1
    /\ LET c == stack[1] IN
       \/ /\ stack' = << [c EXCEPT !.errors = @ + 1] >>
          /\ err' = "none"
          /\ lastOp' = DaemonOp("read_failed", 0)
       \/ /\ stack' = << [c EXCEPT !.continuous = (c.errors = 0)] >>
          /\ err' = "none"
          /\ lastOp' = DaemonOp("no_touch_data", 0)
       \/ /\ stack' = << AfterParse(c, FALSE, 0) >>
          /\ err' = "none"
          /\ lastOp' = DaemonOp("parse", buflen')
       \/ /\ stack' = << AfterParse(c, TRUE, c.errors + 1) >>
          /\ err' = "out_of_range"
          /\ lastOp' = DaemonOp("parse", buflen')
    /\ UNCHANGED <<out, bp, rp, mode>>

\* daemon::main: the loop ends, on should_exit or on too many errors.
DaemonStop ==
    /\ DaemonRunning("main")
    /\ stack[1].should_exit \/ TooManyErrors(stack[1].errors)
    /\ stack' = << [stack[1] EXCEPT !.fn = "stopped"] >>
    /\ lastOp' = DaemonOp(IF stack[1].should_exit THEN "exit" ELSE "abort", 0)
    /\ UNCHANGED <<buflen, err, out, bp, rp, mode>>

\* main_ithc: one iteration of while (true): common::read, which ends the
\* loop when it fails, then parser.parse_ithc inside try / catch
\* (std::out_of_range).
IthcIteration ==
    /\ DaemonRunning("main_ithc")
    /\ buflen < MaxReads
    /\ buflen' = buflen + 1
    /\ LET c == stack[1] IN
       \/ /\ stack' = << [c EXCEPT !.fn = "stopped"] >>
          /\ err' = "none"
          /\ lastOp' = DaemonOp("read_failed", 0)
       \/ /\ stack' = << AfterParse(c, FALSE, 0) >>
          /\ err' = "none"
          /\ lastOp' = DaemonOp("parse", buflen')
       \/ /\ stack' = << AfterParse(c, TRUE, 0) >>
          /\ err' = "out_of_range"
          /\ lastOp' = DaemonOp("parse", buflen')
    /\ UNCHANGED <<out, bp, rp, mode>>

NextDaemon ==
    \/ DaemonSignal
    \/ DaemonIteration
    \/ DaemonStop
    \/ IthcIteration

SpecDaemon == InitDaemon /\ [][NextDaemon]_vars

-----------------------------------------------------------------------------
(* The Block-based parser: the report containers *)

\* Parser::parse_dft on the cursor b of a report [lo, hi): the results it can
\* leave, as [ok, p, out, reads].
ParseDft(b, lo, hi, w, invert_x, invert_y) ==
    LET r1 == BlockRead(b, SizeofDftWindow)
        rows == 2 * w.num_rows * SizeofDftRow
        r2 == BlockRead(r1.blk, rows)
        fit == (BlockRemaining(r1.blk) \div SizeofDftRow) * SizeofDftRow
        rd1 == {ReadOf(b.index, r1.blk.index, lo, hi)}
    IN  IF ~r1.ok THEN {[ok |-> FALSE, p |-> bp, out |-> out, reads |-> {}]}
        ELSE IF w.num_rows > IPTS_DFT_MAX_ROWS
        THEN {[ok |-> TRUE, p |-> bp, out |-> out, reads |-> rd1]}
        ELSE IF ~r2.ok
        THEN {[ok |-> FALSE, p |-> bp, out |-> out,
               reads |-> rd1 \cup {ReadOf(r1.blk.index, r1.blk.index + fit, lo, hi)}]}
        ELSE {[ok |-> TRUE, p |-> r.p, out |-> r.out,
               reads |-> rd1 \cup {ReadOf(r1.blk.index, r2.blk.index, lo, hi)}]
              : r \in ProcessDft(bp, out, w, lo, hi, invert_x, invert_y)}

HeatmapDims ==
    { [set |-> TRUE, height |-> 2, width |-> 2, z_max |-> 0],
      [set |-> TRUE, height |-> 2, width |-> 2, z_max |-> 200] }

\* The DFT windows the parser's passes are given.
IptsWindows ==
    { DftWin(IPTS_DFT_ID_POSITION, 1, 3000, 3000, 100, 0, Frac(1, 1), Frac(1, 2), NaN),
      DftWin(IPTS_DFT_ID_POSITION, 0, 0, 0, 0, 0, NaN, NaN, NaN),
      DftWin(IPTS_DFT_ID_PRESSURE, 17, 0, 0, 0, 0, NaN, NaN, NaN) }

\* Parser::parse_container_reports: one iteration of the loop over the
\* reports; the results it can leave.
ContainerReport(f, type, size, ts, dim, w, invert_x, invert_y) ==
    LET h == HeaderThenBlock(f.blk, SizeofIptsReport, size)
        op == OpOf(IF type = IPTS_REPORT_TYPE_PEN_DFT_WINDOW
                   THEN "pen_dft_window" ELSE "container_report", f, h)
        base == [f EXCEPT !.blk = h.blk]
        done(fr, o, p, rd) == Res(Below \o << fr >>, o, p, AlsoRead(op, rd, FALSE))
        fail(rd) == Thrown(out, bp, AlsoRead(op, rd, TRUE))
        r8 == BlockRead(h.sub, 8)
        rd8 == {ReadOf(h.sub.index, h.sub.index + 8, h.lo, h.hi)}
        hm == BlockBlock(h.sub, f.loc.dim.width * f.loc.dim.height)
    IN  IF ~h.ok THEN {Thrown(out, bp, op)}
        ELSE IF type = IPTS_REPORT_TYPE_START
        THEN IF ~r8.ok THEN {fail({})}
             ELSE {done([base EXCEPT !.loc.start = [set |-> TRUE, timestamp |-> ts]],
                        out, bp, rd8)}
        ELSE IF type = IPTS_REPORT_TYPE_HEATMAP_DIM
        THEN IF ~r8.ok THEN {fail({})}
             ELSE {done([base EXCEPT !.loc.dim = dim], out,
                        [bp EXCEPT !.num_cols = dim.width, !.num_rows = dim.height],
                        rd8)}
        ELSE IF type = IPTS_REPORT_TYPE_HEATMAP
        THEN IF ~f.loc.dim.set THEN {done(base, out, bp, {})}
             ELSE IF ~hm.ok THEN {fail({})}
             ELSE {done(base, out, [bp EXCEPT !.heatmap.data = BlockSpan(hm.sub)], {})}
        ELSE IF type = IPTS_REPORT_TYPE_PEN_DFT_WINDOW
        THEN { IF r.ok THEN done(base, r.out, r.p, r.reads) ELSE fail(r.reads)
               : r \in ParseDft(h.sub, h.lo, h.hi, w, invert_x, invert_y) }
        ELSE {done(base, out, bp, {})}

ContainerReportTypes ==
    {IPTS_REPORT_TYPE_START, IPTS_REPORT_TYPE_HEATMAP_DIM, IPTS_REPORT_TYPE_HEATMAP,
     IPTS_REPORT_TYPE_PEN_DFT_WINDOW, IPTS_REPORT_TYPE_FREQUENCY_NOISE}

\* The inputs a report of the given type is decoded from.
ReportDims(type) ==
    IF type = IPTS_REPORT_TYPE_HEATMAP_DIM THEN HeatmapDims ELSE {NoDim}

ReportWindows(type) ==
    IF type = IPTS_REPORT_TYPE_PEN_DFT_WINDOW
    THEN IptsWindows ELSE {CHOOSE w \in IptsWindows : TRUE}

IptsContainerReport ==
    /\ Running("container_reports")
    /\ BlockRemaining(Top.blk) > 0
    /\ \E type \in ContainerReportTypes,
          size \in SizeSet(Max0(BlockRemaining(Top.blk) - SizeofIptsReport),
                           {SizeofHeatmapDim, SizeofDftWindow + 2 * SizeofDftRow}) :
          \E dim \in ReportDims(type), w \in ReportWindows(type) :
          \E r \in ContainerReport(Top, type, size, 5, dim, w,
                                    bp.invert_x, bp.invert_y) :
              Apply(r)

\* parse_container_reports after the loop: the heatmap, if there is one.
ContainerReportsEnd(f) ==
    IF bp.heatmap.data.len # 0 /\ f.loc.start.set /\ f.loc.dim.set
    THEN LET hm == [bp.heatmap EXCEPT !.timestamp = f.loc.start.timestamp,
                                      !.height = f.loc.dim.height,
                                      !.width = f.loc.dim.width,
                                      !.z_max = IF f.loc.dim.z_max # 0
                                                THEN f.loc.dim.z_max ELSE 255]
         IN  Res(Below, Emit(out, "heatmap", hm, f.lo, f.hi),
                 [bp EXCEPT !.heatmap = hm], NoOp)
    ELSE Res(Below, out, bp, NoOp)

IptsContainerReportsEnd ==
    /\ Running("container_reports")
    /\ BlockRemaining(Top.blk) = 0
    /\ Apply(ContainerReportsEnd(Top))

NextIpts ==
    \/ IptsParseStart
    \/ IptsParseLoopStart
    \/ IptsParseIthcStart
    \/ IptsIthcMessage
    \/ IptsIthcDone
    \/ IptsParseHid
    \/ IptsHidContainer
    \/ IptsHidContainerDone
    \/ IptsContainerReport
    \/ IptsContainerReportsEnd
    \/ IptsParse
    \/ IptsParseLoopDone
    \/ IptsParsePayload
    \/ IptsPayloadFrame
    \/ IptsPayloadDone
    \/ IptsStylusReportHeader
    \/ IptsStylusDone
    \/ IptsStylusReportBegin
    \/ IptsStylusElement
    \/ IptsStylusElementsDone

SpecIpts == InitIpts /\ [][NextIpts]_vars

-----------------------------------------------------------------------------
(* SpecReports: passes of Parser::parse() over buffers of one record *)

\* The room of the largest buffer: the ipts_data, ipts_payload and
\* ipts_payload_frame headers, three reports of eight bytes and one report
\* holding a DFT window of one row.
MaxReportsBuf == 240


\* The first byte after the three ipts headers of a payload with one frame.
FirstReport == SizeofIptsData + SizeofIptsPayload + SizeofIptsPayloadFrame

\* A report header followed by eight bytes.
SmallReport == SizeofIptsReport + SizeofHeatmapDim

\* The end of the ipts_data of the buffer, by its kind: a payload with one
\* heatmap frame that spans the rest of the buffer; a payload with two
\* frames, the first a heatmap frame with room for three small reports, and
\* room for a second frame of two small reports; a payload with one stylus
\* frame that has room for one report of one sample; a HID report that has
\* room for a single-touch sample.
RecordEnd(kind) ==
    IF kind = "heatmap_frame" THEN buflen
    ELSE IF kind = "two_frames"
    THEN FirstReport + 3 * SmallReport + SizeofIptsPayloadFrame + 2 * SmallReport
    ELSE IF kind = "stylus_frame"
    THEN FirstReport + SizeofIptsReport + SizeofStylusReport + SizeofStylusDataV2
    ELSE SizeofIptsData + 1 + SizeofSingletouch

RecordKinds == {"heatmap_frame", "two_frames", "stylus_frame", "hid_report"}

\* The calls under way when Parser::parse() has read the headers of the
\* record: parse(b, false) has made the block of the ipts_data and, for a
\* payload, parse_payload has read payload.frames and the header of the
\* first frame and has made its block.
RecordCalls(kind) ==
    LET data == SizeofIptsData
        e == RecordEnd(kind)
        lo == FirstReport
        mid == lo + 3 * SmallReport
        payload(next, left) ==
            Frame("payload_frames", Block(next, e), data, e, left, NoLoc)
        callee(fn, hi) == Frame(fn, Block(lo, hi), lo, hi, 0, NoLoc)
    IN  IF kind = "heatmap_frame"
        THEN << payload(e, 0), callee("container_reports", e) >>
        ELSE IF kind = "two_frames"
        THEN << payload(mid, 1), callee("container_reports", mid) >>
        ELSE IF kind = "stylus_frame"
        THEN << payload(e, 0), callee("parse_stylus", e) >>
        ELSE << Frame("parse_hid", Block(data, e), data, e, 0, NoLoc) >>

InitReports ==
    /\ buflen = MaxReportsBuf
    /\ stack = << >>
    /\ err = "none"
    /\ out = << >>
    /\ lastOp = NoOp
    /\ bp = BpInit
    /\ rp = RpInit
    /\ mode = "idle"

\* Parser::parse(): reset(), then parse(b, false) down to the call that
\* handles the record.
ReportsParseStart ==
    /\ mode \in {"parse", "idle"}
    /\ stack = << >>
    /\ mode' = "parse"
    /\ \E kind \in RecordKinds : stack' = RecordCalls(kind)
    /\ bp' = BpReset(bp)
    /\ err' = "none"
    /\ out' = << >>
    /\ lastOp' = Did("reset", {}, 0, buflen, FALSE)
    /\ UNCHANGED <<buflen, rp>>

NextReports ==
    \/ ReportsParseStart
    \/ IptsPayloadFrame
    \/ IptsContainerReport
    \/ IptsContainerReportsEnd
    \/ IptsPayloadDone
    \/ IptsStylusReportHeader
    \/ IptsStylusDone
    \/ IptsStylusReportBegin
    \/ IptsStylusElement
    \/ IptsStylusElementsDone
    \/ IptsParseHid

SpecReports == InitReports /\ [][NextReports]_vars

-----------------------------------------------------------------------------
(* The Reader-based parser: src/src/ipts/parser.hpp *)

\* class Reader (common/reader.hpp): a cursor [index, end) over the buffer.
\* Reader::size(): the bytes not read yet.
ReaderSize(r) == r.end - r.index

\* Reader::skip(n); Reader::read<T>() with sizeof(T) = n
ReaderSkip(r, n) ==
    IF n > ReaderSize(r)
    THEN [ok |-> FALSE, blk |-> r]
    ELSE [ok |-> TRUE, blk |-> [r EXCEPT !.index = @ + n]]

ReaderRead(r, n) == ReaderSkip(r, n)

\* Reader::sub(n): a reader of the next n bytes, which the parent passes over
ReaderSub(r, n) ==
    IF n > ReaderSize(r)
    THEN [ok |-> FALSE, blk |-> r, sub |-> r]
    ELSE [ok |-> TRUE, blk |-> [r EXCEPT !.index = @ + n],
          sub |-> [index |-> r.index, end |-> r.index + n]]

\* Reader::subspan<u8>(n): a view of the next n bytes, which are passed over
ReaderSubspan(r, n) ==
    IF n > ReaderSize(r)
    THEN [ok |-> FALSE, blk |-> r, len |-> 0]
    ELSE [ok |-> TRUE, blk |-> [r EXCEPT !.index = @ + n], len |-> n]

\* protocol::hid: the report header parse() skips, the frame header, the
\* frame types
SizeofReportHeader == 3
SizeofHidFrame == 6
FrameTypeHid == 1
FrameTypeHeatmap == 2
FrameTypeMetadata == 3
FrameTypeLegacy == 4
FrameTypeReports == 5

\* protocol::legacy: the header (elements) and the group header (type, size)
SizeofLegacyHeader == 4
SizeofReportGroup == 8
GroupTypeStylus == 6
GroupTypeTouch == 8

\* The records parser.hpp reads that protocol.h does not declare:
\* ipts_heatmap_header (size), ipts_pen_metadata, and the parts of a metadata
\* frame (dimensions, a byte, transform, unknown) taken together.
SizeofHeatmapHeader == 4
SizeofPenMetadata == 16
SizeofMetadata == 16
IPTS_REPORT_TYPE_TIMESTAMP == 64         \* 0x40
IPTS_MAX_PRESSURE_V1 == 1024
IPTS_MAX_PRESSURE_V2 == 4096

\* Buffer lengths of the Reader-based parser's passes.
MaxHidBuf == 40
HidBufLens == {2, MaxHidBuf}

\* Most groups a legacy header of the model declares.
MaxGroups == 2

\* reader.read<Header>() followed by reader.sub(size) on reader b.
HeaderThenSub(b, hdr, size) ==
    LET r1 == ReaderRead(b, hdr) IN
    IF ~r1.ok
    THEN [ok |-> FALSE, blk |-> b, sub |-> NoBlk, reads |-> {}, pre |-> b,
          n |-> hdr, lo |-> 0, hi |-> 0]
    ELSE LET r2 == ReaderSub(r1.blk, size) IN
         [ok |-> r2.ok, blk |-> r2.blk,
          sub |-> IF r2.ok THEN r2.sub ELSE NoBlk,
          reads |-> {[lo |-> b.index, hi |-> b.index + hdr]},
          pre |-> r1.blk, n |-> size,
          lo |-> r1.blk.index, hi |-> r1.blk.index + size]

\* What a handler leaves when given the reader of a record [lo, hi): the
\* parser's fields, the callbacks, the bytes it read; ok = FALSE if it threw.
Handled(ok, p, o, reads) == [ok |-> ok, p |-> p, out |-> o, reads |-> reads]

\* The samples a stylus report passes over before its last one:
\* for (u8 i = 0; i < elements - 1; i++), the bound computed in int.
SkippedSamples(elements) == IF elements >= 1 THEN elements - 1 ELSE 0

\* Parser::parse_stylus_v1 / _v2 (kind 1 / 2) on the reader b of the report
\* [lo, hi); d is the sample that is read.
ParseStylus(kind, b, lo, hi, p, o, elements, serial, d) ==
    LET n == IF kind = 1 THEN SizeofStylusDataV1 ELSE SizeofStylusDataV2
        r1 == ReaderRead(b, SizeofStylusReport)
        r2 == ReaderSkip(r1.blk, SkippedSamples(elements) * n)
        r3 == ReaderRead(r2.blk, n)
        bits == IF kind = 1 THEN d.mode % 256 ELSE d.mode
        pmax == IF kind = 1 THEN IPTS_MAX_PRESSURE_V1 ELSE IPTS_MAX_PRESSURE_V2
        st == [proximity |-> TestBit(bits, IPTS_STYLUS_REPORT_MODE_BIT_PROXIMITY),
               contact |-> d.pressure > 0,
               button |-> TestBit(bits, IPTS_STYLUS_REPORT_MODE_BIT_BUTTON),
               rubber |-> TestBit(bits, IPTS_STYLUS_REPORT_MODE_BIT_RUBBER),
               timestamp |-> IF kind = 1 THEN 0 ELSE d.timestamp,
               x |-> [n |-> d.x, d |-> IPTS_MAX_X],
               y |-> [n |-> d.y, d |-> IPTS_MAX_Y],
               pressure |-> [n |-> d.pressure, d |-> pmax],
               altitude |-> IF kind = 1 THEN 0 ELSE d.altitude,
               azimuth |-> IF kind = 1 THEN 0 ELSE d.azimuth,
               serial |-> serial, skipped |-> SkippedSamples(elements),
               mode |-> d.mode, elements |-> elements]
        rd1 == {ReadOf(b.index, r1.blk.index, lo, hi)}
        rd3 == rd1 \cup {ReadOf(r2.blk.index, r3.blk.index, lo, hi)}
    IN  IF ~r1.ok THEN Handled(FALSE, p, o, {})
        ELSE IF ~r2.ok \/ ~r3.ok THEN Handled(FALSE, p, o, rd1)
        ELSE Handled(TRUE, p, Emit(o, "stylus", st, lo, hi), rd3)

\* Parser::parse_dimensions
ParseDimensions(b, lo, hi, p, o, dim) ==
    LET r == ReaderRead(b, SizeofHeatmapDim)
        m == [height |-> dim.height, width |-> dim.width,
              z_max |-> IF dim.z_max = 0 THEN 255 ELSE dim.z_max, age |-> 0]
    IN  IF ~r.ok THEN Handled(FALSE, p, o, {})
        ELSE Handled(TRUE, [p EXCEPT !.m_dim = m], o,
                     {ReadOf(b.index, r.blk.index, lo, hi)})

\* Parser::parse_timestamp
ParseTimestamp(b, lo, hi, p, o, ts) ==
    LET r == ReaderRead(b, SizeofReportStart) IN
    IF ~r.ok THEN Handled(FALSE, p, o, {})
    ELSE Handled(TRUE, [p EXCEPT !.m_time = ts], o,
                 {ReadOf(b.index, r.blk.index, lo, hi)})

\* Parser::parse_heatmap_data
ParseHeatmapData(b, lo, hi, p, o) ==
    LET r == ReaderSubspan(b, p.m_dim.width * p.m_dim.height)
        hm == [data |-> [lo |-> b.index, len |-> r.len], dim |-> p.m_dim,
               time |-> p.m_time]
    IN  IF ~r.ok THEN Handled(FALSE, p, o, {})
        ELSE Handled(TRUE, p, Emit(o, "heatmap", hm, lo, hi),
                     {ReadOf(b.index, r.blk.index, lo, hi)})

\* Parser::parse_heatmap_frame
ParseHeatmapFrame(b, lo, hi, p, o, hm_size) ==
    LET h == HeaderThenSub(b, SizeofHeatmapHeader, hm_size)
        rd == {ReadOf(r.lo, r.hi, lo, hi) : r \in h.reads}
        d == ParseHeatmapData(h.sub, h.lo, h.hi, p, o)
    IN  IF ~h.ok THEN Handled(FALSE, p, o, rd)
        ELSE Handled(d.ok, d.p, d.out, rd \cup d.reads)

\* Parser::parse_metadata_frame
ParseMetadataFrame(b, lo, hi, p, o) ==
    LET r == ReaderRead(b, SizeofMetadata) IN
    IF ~r.ok THEN Handled(FALSE, p, o, {})
    ELSE Handled(TRUE, p, Emit(o, "metadata", [dimensions |-> 0], lo, hi),
                 {ReadOf(b.index, r.blk.index, lo, hi)})

\* Parser::parse_pen_metadata
ParsePenMetadata(b, lo, hi, p, o, meta) ==
    LET r == ReaderRead(b, SizeofPenMetadata) IN
    IF ~r.ok THEN Handled(FALSE, p, o, {})
    ELSE Handled(TRUE, [p EXCEPT !.m_pen_meta = [seq_num |-> meta.seq_num,
                                                  data_type |-> meta.data_type,
                                                  group_counter |-> meta.group_counter,
                                                  parsed |-> TRUE]], o,
                 {ReadOf(b.index, r.blk.index, lo, hi)})

\* Parser::parse_dft_window; dft.x.at(i) and dft.y.at(i) throw
\* std::out_of_range for a row i >= IPTS_DFT_MAX_ROWS.  seq_num is not a
\* member of the DftWindow handed to on_dft: it records the seq_num the
\* window had on the wire.
ParseDftWindow(b, lo, hi, p, o, w) ==
    LET r1 == ReaderRead(b, SizeofDftWindow)
        r2 == ReaderRead(r1.blk, 2 * w.num_rows * SizeofDftRow)
        match == /\ w.seq_num = p.m_pen_meta.seq_num
                 /\ w.data_type = p.m_pen_meta.data_type
        dft == [rows |-> w.num_rows, type |-> w.data_type, seq_num |-> w.seq_num,
                group |-> IF match THEN <<p.m_pen_meta.group_counter>> ELSE << >>,
                dim |-> p.m_dim, time |-> p.m_time]
        rd1 == {ReadOf(b.index, r1.blk.index, lo, hi)}
    IN  IF ~r1.ok THEN Handled(FALSE, p, o, {})
        ELSE IF ~r2.ok \/ w.num_rows > IPTS_DFT_MAX_ROWS
        THEN Handled(FALSE, p, o, rd1)
        ELSE Handled(TRUE, p, Emit(o, "dft", dft, lo, hi),
                     rd1 \cup {ReadOf(r1.blk.index, r2.blk.index, lo, hi)})

\* The inputs of the Reader-based parser's passes.
HidDims ==
    { [height |-> 2, width |-> 2, z_max |-> 0],
      [height |-> 2, width |-> 2, z_max |-> 200] }

HidWindows ==
    { [num_rows |-> 0, seq_num |-> 1, data_type |-> IPTS_DFT_ID_POSITION],
      [num_rows |-> 0, seq_num |-> 0, data_type |-> IPTS_DFT_ID_POSITION],
      [num_rows |-> 0, seq_num |-> 0, data_type |-> 0],
      [num_rows |-> 17, seq_num |-> 1, data_type |-> IPTS_DFT_ID_POSITION] }

HidPenMetas ==
    { [seq_num |-> 1, data_type |-> IPTS_DFT_ID_POSITION, group_counter |-> 3] }

HidSamples ==
    { WireSample(1, 4800, 3600, 0, 0, 0, 1),          \* hovering
      WireSample(7, 9600, 7200, 1024, 9000, 0, 2),    \* contact, button
      WireSample(0, 0, 0, 100, 0, 0, 3),              \* pressure, no proximity
      WireSample(9, 65535, 65535, 65535, 0, 0, 4) }   \* every field at its largest

HidFrameTypes ==
    {FrameTypeHid, FrameTypeHeatmap, FrameTypeMetadata, FrameTypeLegacy,
     FrameTypeReports, 0}

HidReportTypes ==
    {IPTS_REPORT_TYPE_STYLUS_V1, IPTS_REPORT_TYPE_STYLUS_V2,
     IPTS_REPORT_TYPE_HEATMAP_DIM, IPTS_REPORT_TYPE_TIMESTAMP,
     IPTS_REPORT_TYPE_HEATMAP, IPTS_REPORT_TYPE_PEN_METADATA,
     IPTS_REPORT_TYPE_PEN_DFT_WINDOW, IPTS_REPORT_TYPE_FREQUENCY_NOISE}

\* What a record of the input holds besides its header: the fields the
\* handler of its type decodes.
NoContent ==
    [elements |-> 0, serial |-> 0, d |-> WireSample(0, 0, 0, 0, 0, 0, 0),
     dim |-> [height |-> 0, width |-> 0, z_max |-> 0], ts |-> 0,
     meta |-> [seq_num |-> 0, data_type |-> 0, group_counter |-> 0],
     w |-> [num_rows |-> 0, seq_num |-> 0, data_type |-> 0], hm_size |-> 0]

InitHid ==
    /\ buflen \in HidBufLens
    /\ stack = << >>
    /\ err = "none"
    /\ out = << >>
    /\ lastOp = NoOp
    /\ bp = BpInit
    /\ rp = RpInit
    /\ mode = "hid_idle"

ApplyHid(r) ==
    /\ stack' = r.stack
    /\ out' = r.out
    /\ rp' = r.p
    /\ err' = r.err
    /\ lastOp' = r.op
    /\ UNCHANGED <<buflen, bp, mode>>

RunningHid(fn) ==
    /\ mode = "hid"
    /\ stack # << >>
    /\ Top.fn = fn

\* The parser's fields when another pass begins: the program leaves them as
\* they are, and what they hold is one pass older.
NextPass(p) == [p EXCEPT !.m_dim.age = IF @ < 2 THEN @ + 1 ELSE 2]

\* Parser::parse_with_header(data, sizeof(ReportHeader)) up to the call of
\* parse_hid_frame.
ParseWithHeader(header) ==
    LET b == [index |-> 0, end |-> buflen]
        r == ReaderSkip(b, header)
        op == MkOp("parse_with_header", IF r.ok THEN {[lo |-> 0, hi |-> header]} ELSE {},
                   0, buflen, header, b, r.blk, NoBlk, ~r.ok)
    IN  IF ~r.ok THEN Thrown(<< >>, NextPass(rp), op)
        ELSE Res(<< Frame("hid_frame", r.blk, 0, buflen, 0, NoLoc) >>, << >>,
                 NextPass(rp), op)

HidParseStart ==
    /\ mode \in {"hid_idle", "hid"}
    /\ stack = << >>
    /\ mode' = "hid"
    /\ LET r == ParseWithHeader(SizeofReportHeader) IN
       /\ stack' = r.stack
       /\ out' = r.out
       /\ rp' = r.p
       /\ err' = r.err
       /\ lastOp' = r.op
    /\ UNCHANGED <<buflen, bp>>

\* The test parse_hid_frame makes before it parses a Reports frame: of
\* `reader`, the reader the frame was taken from, and `sub`, the frame's own.
IgnoredReports(reader, sub) == ReaderSize(reader) = 4

\* The handler parse_hid_frame / parse_reports dispatches a type to.
FrameHandler(type) ==
    IF type = FrameTypeHid THEN "parse_hid_frames"
    ELSE IF type = FrameTypeHeatmap THEN "parse_heatmap_frame"
    ELSE IF type = FrameTypeMetadata THEN "parse_metadata_frame"
    ELSE IF type = FrameTypeLegacy THEN "parse_legacy_frame"
    ELSE IF type = FrameTypeReports THEN "parse_reports"
    ELSE "ignored"

ReportHandlerFallsThrough(type) ==
    IF type = IPTS_REPORT_TYPE_STYLUS_V1 THEN "parse_stylus_v1"
    ELSE IF type = IPTS_REPORT_TYPE_STYLUS_V2 THEN "parse_stylus_v2"
    ELSE IF type = IPTS_REPORT_TYPE_HEATMAP_DIM THEN "parse_dimensions"
    ELSE IF type = IPTS_REPORT_TYPE_HEATMAP THEN "parse_heatmap_data"
    ELSE IF type = IPTS_REPORT_TYPE_PEN_METADATA THEN "parse_pen_metadata"
    ELSE IF type = IPTS_REPORT_TYPE_PEN_DFT_WINDOW THEN "parse_dft_window"
    ELSE "parse_timestamp"

ReportHandler(type) ==
    IF type = IPTS_REPORT_TYPE_STYLUS_V1 THEN "parse_stylus_v1"
    ELSE IF type = IPTS_REPORT_TYPE_STYLUS_V2 THEN "parse_stylus_v2"
    ELSE IF type = IPTS_REPORT_TYPE_HEATMAP_DIM THEN "parse_dimensions"
    ELSE IF type = IPTS_REPORT_TYPE_TIMESTAMP THEN "parse_timestamp"
    ELSE IF type = IPTS_REPORT_TYPE_HEATMAP THEN "parse_heatmap_data"
    ELSE IF type = IPTS_REPORT_TYPE_PEN_METADATA THEN "parse_pen_metadata"
    ELSE IF type = IPTS_REPORT_TYPE_PEN_DFT_WINDOW THEN "parse_dft_window"
    ELSE "ignored"

\* Parser::parse_hid_frame on the reader of call f; c holds what the frame's
\* payload is decoded to.
HidFrame(f, type, size, c) ==
    LET h == HeaderThenSub(f.blk, SizeofHidFrame, SizeSub(size, SizeofHidFrame))
        fh == FrameHandler(type)
        base == IF f.fn = "hid_frames"
                THEN Below \o << [f EXCEPT !.blk = h.blk] >>
                ELSE Below
        op(name) == Typed(MkOp(name, h.reads, f.lo, f.hi, h.n, h.pre, h.blk,
                               h.sub, ~h.ok), type, size)
        sub(fn, b, cnt) ==
            Frame(fn, b, h.lo, h.hi, cnt, [NoLoc EXCEPT !.kind = type])
        leaf(r) == IF r.ok
                   THEN Res(base, r.out, r.p, AlsoRead(op(fh), r.reads, FALSE))
                   ELSE Thrown(out, rp, AlsoRead(op(fh), r.reads, TRUE))
        lh == ReaderRead(h.sub, SizeofLegacyHeader)
    IN  IF ~h.ok THEN Thrown(out, rp, op("parse_hid_frame"))
        ELSE IF fh = "parse_hid_frames"
        THEN Res(base \o << sub("hid_frames", h.sub, 0) >>, out, rp, op(fh))
        ELSE IF fh = "parse_heatmap_frame"
        THEN leaf(ParseHeatmapFrame(h.sub, h.lo, h.hi, rp, out, c.hm_size))
        ELSE IF fh = "parse_metadata_frame"
        THEN leaf(ParseMetadataFrame(h.sub, h.lo, h.hi, rp, out))
        ELSE IF fh = "parse_legacy_frame"
        THEN IF ~lh.ok THEN Thrown(out, rp, AlsoRead(op(fh), {}, TRUE))
             ELSE Res(base \o << sub("legacy_groups", lh.blk, c.elements) >>, out, rp,
                      AlsoRead(op(fh), {ReadOf(h.lo, lh.blk.index, h.lo, h.hi)}, FALSE))
        ELSE IF fh = "parse_reports"
        THEN IF IgnoredReports(h.blk, h.sub)
             THEN Res(base, out, rp, op("reports_ignored"))
             ELSE Res(base \o << sub("reports", h.sub, 0) >>, out, rp, op(fh))
        ELSE Res(base, out, rp, op(fh))

\* The sizes a HID frame header declares: the header itself plus a payload,
\* and a size shorter than the header.
FrameSizes(rem, fits) ==
    {SizeofHidFrame + n : n \in SizeSet(Max0(rem - SizeofHidFrame), fits)} \cup {0}

\* The contents a frame of the given type is decoded to.
FrameContents(type, rem) ==
    IF type = FrameTypeHeatmap
    THEN {[NoContent EXCEPT !.hm_size = n] : n \in {0, 4, 8}}
    ELSE IF type = FrameTypeLegacy
    THEN {[NoContent EXCEPT !.elements = n] : n \in 0 .. MaxGroups}
    ELSE {NoContent}

HidParseFrame ==
    /\ RunningHid("hid_frame") \/ (RunningHid("hid_frames") /\ ReaderSize(Top.blk) > 0)
    /\ \E type \in HidFrameTypes,
          size \in FrameSizes(ReaderSize(Top.blk), {4, 12}) :
          \E c \in FrameContents(type, ReaderSize(Top.blk)) :
              ApplyHid(HidFrame(Top, type, size, c))

\* parse_hid_frames: the reader is empty, the loop ends.
HidFramesDone ==
    /\ RunningHid("hid_frames")
    /\ ReaderSize(Top.blk) = 0
    /\ ApplyHid(Res(Below, out, rp, NoOp))

\* parse_legacy_frame: one iteration of the loop over header.elements.
LegacyGroup(f, type, size) ==
    LET h == HeaderThenSub(f.blk, SizeofReportGroup, size)
        op == Typed(MkOp("legacy_group", h.reads, f.lo, f.hi, h.n, h.pre, h.blk,
                         h.sub, ~h.ok), type, size)
        base == Below \o << [f EXCEPT !.blk = h.blk, !.cnt = @ - 1] >>
    IN  IF ~h.ok THEN Thrown(out, rp, op)
        ELSE IF type \in {GroupTypeStylus, GroupTypeTouch}
        THEN Res(base \o << Frame("reports", h.sub, h.lo, h.hi, 0, NoLoc) >>,
                 out, rp, op)
        ELSE Res(base, out, rp, op)

HidLegacyGroup ==
    /\ RunningHid("legacy_groups")
    /\ Top.cnt > 0
    /\ \E type \in {GroupTypeStylus, GroupTypeTouch, 0},
          size \in SizeSet(Max0(ReaderSize(Top.blk) - SizeofReportGroup), {4}) :
          ApplyHid(LegacyGroup(Top, type, size))

HidLegacyDone ==
    /\ RunningHid("legacy_groups")
    /\ Top.cnt = 0
    /\ ApplyHid(Res(Below, out, rp, NoOp))

\* Parser::parse_reports: one iteration of the loop; c holds what the
\* report's payload is decoded to.
HidReport(f, type, size, c) ==
    LET h == HeaderThenSub(f.blk, SizeofIptsReport, size)
        rh == ReportHandler(type)
        op(name) == Typed(MkOp(name, h.reads, f.lo, f.hi, h.n, h.pre, h.blk,
                               h.sub, ~h.ok), type, size)
        base == Below \o << [f EXCEPT !.blk = h.blk] >>
        r == IF rh = "parse_stylus_v1"
             THEN ParseStylus(1, h.sub, h.lo, h.hi, rp, out, c.elements, c.serial, c.d)
             ELSE IF rh = "parse_stylus_v2"
             THEN ParseStylus(2, h.sub, h.lo, h.hi, rp, out, c.elements, c.serial, c.d)
             ELSE IF rh = "parse_dimensions"
             THEN ParseDimensions(h.sub, h.lo, h.hi, rp, out, c.dim)
             ELSE IF rh = "parse_timestamp"
             THEN ParseTimestamp(h.sub, h.lo, h.hi, rp, out, c.ts)
             ELSE IF rh = "parse_heatmap_data"
             THEN ParseHeatmapData(h.sub, h.lo, h.hi, rp, out)
             ELSE IF rh = "parse_pen_metadata"
             THEN ParsePenMetadata(h.sub, h.lo, h.hi, rp, out, c.meta)
             ELSE IF rh = "parse_dft_window"
             THEN ParseDftWindow(h.sub, h.lo, h.hi, rp, out, c.w)
             ELSE Handled(TRUE, rp, out, {})
    IN  IF ~h.ok THEN Thrown(out, rp, op("parse_reports"))
        ELSE IF ~r.ok THEN Thrown(out, rp, AlsoRead(op(rh), r.reads, TRUE))
        ELSE Res(base, r.out, r.p, AlsoRead(op(rh), r.reads, FALSE))

\* The contents a report of the given type is decoded to.
ReportContents(type) ==
    IF type \in {IPTS_REPORT_TYPE_STYLUS_V1, IPTS_REPORT_TYPE_STYLUS_V2}
    THEN {[NoContent EXCEPT !.elements = n, !.serial = 7, !.d = d]
           : n \in 0 .. MaxElements, d \in HidSamples}
    ELSE IF type = IPTS_REPORT_TYPE_HEATMAP_DIM
    THEN {[NoContent EXCEPT !.dim = d] : d \in HidDims}
    ELSE IF type = IPTS_REPORT_TYPE_TIMESTAMP
    THEN {[NoContent EXCEPT !.ts = 5]}
    ELSE IF type = IPTS_REPORT_TYPE_PEN_METADATA
    THEN {[NoContent EXCEPT !.meta = m] : m \in HidPenMetas}
    ELSE IF type = IPTS_REPORT_TYPE_PEN_DFT_WINDOW
    THEN {[NoContent EXCEPT !.w = w] : w \in HidWindows}
    ELSE {NoContent}

HidParseReport ==
    /\ RunningHid("reports")
    /\ ReaderSize(Top.blk) > 0
    /\ \E type \in HidReportTypes,
          size \in SizeSet(Max0(ReaderSize(Top.blk) - SizeofIptsReport),
                           {SizeofHeatmapDim, SizeofStylusReport + SizeofStylusDataV1}) :
          \E c \in ReportContents(type) :
              ApplyHid(HidReport(Top, type, size, c))

HidReportsDone ==
    /\ RunningHid("reports")
    /\ ReaderSize(Top.blk) = 0
    /\ ApplyHid(Res(Below, out, rp, NoOp))

NextHid ==
    \/ HidParseStart
    \/ HidParseFrame
    \/ HidFramesDone
    \/ HidLegacyGroup
    \/ HidLegacyDone
    \/ HidParseReport
    \/ HidReportsDone

SpecHid == InitHid /\ [][NextHid]_vars

-----------------------------------------------------------------------------
(* SpecSignal: the loop of main_ipts and its signal handlers *)

\* Most signals of each kind delivered in a run.
MaxSignals == 3

\* In SpecSignal stack holds the one call of main_ipts: pc is the statement
\* of the loop it is about to execute, should_reset and should_exit are the
\* two std::atomic_bool.  pending and resets are not locals of the program:
\* pending records that a SIGUSR1 was delivered and no call of
\* control.reset() has started since, resets counts the calls of
\* control.reset().  buflen counts the SIGUSR1 delivered.
IptsCall(pc) ==
    [fn |-> "main_ipts", pc |-> pc, should_reset |-> FALSE,
     should_exit |-> FALSE, pending |-> FALSE, resets |-> 0]

InitSignal ==
    /\ mode = "main_ipts"
    /\ stack = << IptsCall("iptsd_loop") >>
    /\ buflen = 0
    /\ err = "none"
    /\ out = << >>
    /\ lastOp = DaemonOp("none", 0)
    /\ bp = BpInit
    /\ rp = RpInit

IptsAt(pc) ==
    /\ mode = "main_ipts"
    /\ stack # << >>
    /\ stack[1].pc = pc

IptsStep(c, op) ==
    /\ stack' = << c >>
    /\ lastOp' = DaemonOp(op, 0)
    /\ UNCHANGED <<buflen, err, out, bp, rp, mode>>

\* common::signal<SIGUSR1>: should_reset = true, between any two statements
\* of the loop.
SigUsr1 ==
    /\ mode = "main_ipts"
    /\ stack[1].pc # "exited"
    /\ buflen < MaxSignals
    /\ buflen' = buflen + 1
    /\ stack' = << [stack[1] EXCEPT !.should_reset = TRUE, !.pending = TRUE] >>
    /\ lastOp' = DaemonOp("SIGUSR1", 0)
    /\ UNCHANGED <<err, out, bp, rp, mode>>

\* common::signal<SIGTERM>, common::signal<SIGINT>: should_exit = true.
SigTerm ==
    /\ mode = "main_ipts"
    /\ stack[1].pc # "exited"
    /\ ~stack[1].should_exit
    /\ IptsStep([stack[1] EXCEPT !.should_exit = TRUE], "SIGTERM")

\* iptsd_loop(ctx, control) and sleep_for.
IptsLoop ==
    /\ IptsAt("iptsd_loop")
    /\ IptsStep([stack[1] EXCEPT !.pc = "if_should_reset"], "iptsd_loop")

\* if (should_reset)
IptsTestReset ==
    /\ IptsAt("if_should_reset")
    /\ IptsStep([stack[1] EXCEPT !.pc = IF stack[1].should_reset
                                        THEN "control_reset"
                                        ELSE "if_should_exit"],
                "if_should_reset")

\* control.reset(): the call starts.
IptsReset ==
    /\ IptsAt("control_reset")
    /\ IptsStep([stack[1] EXCEPT !.pc = "clear_should_reset", !.pending = FALSE,
                                 !.resets = IF @ < MaxSignals THEN @ + 1 ELSE @],
                "control_reset")

\* should_reset = false, after control.reset() has returned.
IptsClearFlag(c) == [c EXCEPT !.pc = "if_should_exit", !.should_reset = FALSE]

IptsClear ==
    /\ IptsAt("clear_should_reset")
    /\ IptsStep(IptsClearFlag(stack[1]), "clear_should_reset")

\* if (should_exit) return EXIT_FAILURE;
IptsTestExit ==
    /\ IptsAt("if_should_exit")
    /\ IptsStep([stack[1] EXCEPT !.pc = IF stack[1].should_exit
                                        THEN "exited" ELSE "iptsd_loop"],
                "if_should_exit")

IptsMain ==
    \/ IptsLoop
    \/ IptsTestReset
    \/ IptsReset
    \/ IptsClear
    \/ IptsTestExit

NextSignal ==
    \/ SigUsr1
    \/ SigTerm
    \/ IptsMain

SpecSignal == InitSignal /\ [][NextSignal]_vars

\* The main thread always runs on; signals come when they come.
SpecSignalFair == SpecSignal /\ WF_vars(IptsMain)

-----------------------------------------------------------------------------
(* SpecRows: the rows of one DFT window that the parsers store and read *)

\* Most rows a window header of the model declares.
MaxWindowRows == 18

\* The rows i < n.
RowsBelow(n) == {i \in 0 .. MaxWindowRows + 1 : i < n}

\* Parser::parse_dft: the rows stored in dft_x / dft_y when the block holds
\* `held` row records after the window header, and whether process_dft is
\* reached (the call is not, when num_rows > IPTS_DFT_MAX_ROWS or a read
\* throws).
DftStoredRows(num_rows, held) ==
    IF num_rows > IPTS_DFT_MAX_ROWS
    THEN [x |-> {}, y |-> {}, reached |-> FALSE, threw |-> FALSE]
    ELSE [x |-> RowsBelow(IF held < num_rows THEN held ELSE num_rows),
          y |-> RowsBelow(IF held < 2 * num_rows THEN held - num_rows ELSE num_rows),
          reached |-> held >= 2 * num_rows,
          threw |-> held < 2 * num_rows]

\* Parser::parse_dft_window: dft.x.at(i) and dft.y.at(i) are assigned for
\* i < num_rows, the read first; at(i) throws for i >= IPTS_DFT_MAX_ROWS.
DftWindowStoredRows(num_rows, held) ==
    LET xs == IF held < num_rows THEN held ELSE num_rows
        xok == xs = num_rows /\ num_rows <= IPTS_DFT_MAX_ROWS
        ys == IF ~xok THEN 0
              ELSE IF held < 2 * num_rows THEN held - num_rows ELSE num_rows
    IN  [x |-> RowsBelow(IF xs > IPTS_DFT_MAX_ROWS THEN IPTS_DFT_MAX_ROWS ELSE xs),
         y |-> RowsBelow(ys),
         reached |-> xok /\ ys = num_rows,
         threw |-> ~(xok /\ ys = num_rows)]

\* A fit of the three rows around row maxi, with no care for the ends.
FrequencyFitRowsUnclamped(n, maxi) == {maxi - 1, maxi, maxi + 1}

\* dft_interpolate_frequency: the three rows maxi - 1 .. maxi + 1 it sums,
\* maxi the row of the largest magnitude moved into 1 .. n - 2.
FrequencyFitRows(n, maxi) ==
    LET m == IF maxi < 1 THEN 1 ELSE IF maxi > n - 2 THEN n - 2 ELSE maxi
    IN  {m - 1, m, m + 1}

\* dft_interpolate_frequency(x, y, n): the rows it reads; none for n < 3,
\* rows 0 .. n - 1 for the search of the largest magnitude, and the rows of
\* the fit unless that magnitude is below 2 * IPTS_DFT_FREQ_MIN_MAG.
FrequencyRows(n, maxi, weak) ==
    IF n < 3 THEN [scan |-> {}, fit |-> {}]
    ELSE [scan |-> RowsBelow(n),
          fit |-> IF weak THEN {} ELSE FrequencyFitRows(n, maxi)]

\* Parser::process_dft: the rows of dft_x / dft_y it reads; dims tells
\* whether num_cols and num_rows are both non-zero.
ProcessDftRows(data_type, num_rows, dims, maxi, weak) ==
    IF data_type = IPTS_DFT_ID_POSITION
    THEN [scan |-> IF num_rows > 0 /\ dims THEN {0} ELSE {}, fit |-> {}]
    ELSE IF data_type = IPTS_DFT_ID_BUTTON
    THEN [scan |-> IF num_rows > 0 THEN {0} ELSE {}, fit |-> {}]
    ELSE IF data_type = IPTS_DFT_ID_PRESSURE /\ num_rows >= IPTS_DFT_PRESSURE_ROWS
    THEN FrequencyRows(IPTS_DFT_PRESSURE_ROWS, maxi, weak)
    ELSE [scan |-> {}, fit |-> {}]

\* In SpecRows stack holds the window a parser is given: its num_rows and
\* data_type, the row records the report holds after the header (held), the
\* row of the largest magnitude among the first six (maxi), whether that
\* magnitude is too weak, and whether the heatmap dimensions are known.
\* lastOp tells what the parser did with it.
RowsOp(op, stored, read, fit, reached, threw) ==
    [op |-> op, stored |-> stored, read |-> read, fit |-> fit,
     reached |-> reached, threw |-> threw]

RowsInputs ==
    { [fn |-> "window", num_rows |-> n, data_type |-> t, held |-> h,
       maxi |-> m, weak |-> k, dims |-> d]
      : n \in 0 .. MaxWindowRows,
        t \in {IPTS_DFT_ID_POSITION, IPTS_DFT_ID_BUTTON, IPTS_DFT_ID_PRESSURE},
        h \in 0 .. 2 * MaxWindowRows,
        m \in 0 .. IPTS_DFT_PRESSURE_ROWS - 1,
        k \in BOOLEAN, d \in BOOLEAN }

InitRows ==
    /\ mode = "rows"
    /\ stack \in { << i >> : i \in { j \in RowsInputs :
                       /\ j.held \in {0, j.num_rows, 2 * j.num_rows}
                       /\ (j.data_type # IPTS_DFT_ID_PRESSURE) => (j.maxi = 0 /\ ~j.weak)
                       /\ (j.data_type # IPTS_DFT_ID_POSITION) => j.dims } }
    /\ buflen = 0
    /\ err = "none"
    /\ out = << >>
    /\ lastOp = RowsOp("none", {}, {}, {}, FALSE, FALSE)
    /\ bp = BpInit
    /\ rp = RpInit

\* Parser::parse_dft, with the process_dft it calls.
RowsParseDft ==
    /\ mode = "rows"
    /\ stack[1].fn = "window"
    /\ LET c == stack[1]
           st == DftStoredRows(c.num_rows, c.held)
           rd == IF st.reached
                 THEN ProcessDftRows(c.data_type, c.num_rows, c.dims, c.maxi, c.weak)
                 ELSE [scan |-> {}, fit |-> {}]
       IN  /\ lastOp' = RowsOp("parse_dft", st.x \cup st.y, rd.scan \cup rd.fit,
                               rd.fit, st.reached, st.threw)
           /\ err' = IF st.threw THEN "out_of_range" ELSE "none"
    /\ stack' = << [stack[1] EXCEPT !.fn = "done"] >>
    /\ UNCHANGED <<buflen, out, bp, rp, mode>>

\* Parser::parse_dft_window, up to on_dft.
RowsParseDftWindow ==
    /\ mode = "rows"
    /\ stack[1].fn = "window"
    /\ LET c == stack[1]
           st == DftWindowStoredRows(c.num_rows, c.held)
       IN  /\ lastOp' = RowsOp("parse_dft_window", st.x \cup st.y, {}, {},
                               st.reached, st.threw)
           /\ err' = IF st.threw THEN "out_of_range" ELSE "none"
    /\ stack' = << [stack[1] EXCEPT !.fn = "done"] >>
    /\ UNCHANGED <<buflen, out, bp, rp, mode>>

NextRows ==
    \/ RowsParseDft
    \/ RowsParseDftWindow

SpecRows == InitRows /\ [][NextRows]_vars

-----------------------------------------------------------------------------
(* Claims about the cursor *)

C1Inv ==
    \A i \in DOMAIN stack :
        /\ 0 <= stack[i].blk.index
        /\ stack[i].blk.index <= stack[i].blk.end
        /\ stack[i].blk.end <= buflen

C1Mono ==
    \A i \in DOMAIN stack : stack'[i].blk.index >= stack[i].blk.index

\* C1: after any sequence of read, skip, block and span calls, successful or
\* failing, every cursor satisfies 0 <= index <= end <= buffer length, and no
\* call decreases an index.
C1_CursorInvariant == [](C1Inv) /\ [][C1Mono]_vars

\* A sub-block whose cursor has moved, right after a call that threw.
C1_Witness ==
    /\ lastOp.threw
    /\ \E i \in DOMAIN stack :
          /\ i > 1
          /\ stack[i].blk.index > 0
          /\ stack[i].blk.index < stack[i].blk.end

\* C2: read, skip and block throw exactly when the requested byte count
\* exceeds end - index, and then leave index and end unchanged; otherwise
\* they advance index by exactly the requested count (end unchanged).
C2_ThrowsIffOverrun ==
    lastOp.op \in {"read", "skip", "block"} =>
        /\ lastOp.threw <=> (lastOp.n > lastOp.pre.end - lastOp.pre.index)
        /\ lastOp.threw => lastOp.post = lastOp.pre
        /\ ~lastOp.threw =>
              /\ lastOp.post.index = lastOp.pre.index + lastOp.n
              /\ lastOp.post.end = lastOp.pre.end

\* A block(n) that throws although n bytes exist in the buffer, on a cursor
\* that has already advanced.
C2_Witness ==
    /\ lastOp.op = "block"
    /\ lastOp.threw
    /\ lastOp.pre.index > 0
    /\ lastOp.n <= buflen

-----------------------------------------------------------------------------
(* Claims about the decode passes of the Block-based parser *)

BlkLen(b) == b.end - b.index

\* The cursor of an active call ends where its container ends and has not
\* left the container.
C3Frames ==
    \A i \in DOMAIN stack :
        /\ stack[i].blk.end = stack[i].hi
        /\ stack[i].lo <= stack[i].blk.index
        /\ stack[i].blk.index <= stack[i].hi

\* A container lies inside the one around it, before the bytes that one has
\* not read yet.
C3Nest ==
    \A i \in DOMAIN stack :
        i > 1 => /\ stack[i - 1].lo <= stack[i].lo
                 /\ stack[i].hi <= stack[i - 1].blk.index

\* The bytes a step read lie inside the container whose cursor read them.
C3Reads == \A r \in lastOp.reads : 0 <= r.lo /\ r.lo <= r.hi /\ r.hi <= r.len

\* The sub-block a step made covers the n bytes at its parent's index, which
\* moved by n.
C3Sub ==
    lastOp.sub # NoBlk =>
        /\ lastOp.sub = Block(lastOp.pre.index, lastOp.pre.index + lastOp.n)
        /\ lastOp.post = Block(lastOp.pre.index + lastOp.n, lastOp.pre.end)

\* C3: every sub-block made during a pass covers exactly the N bytes
\* [parent.index, parent.index + N) of its parent's unread bytes, the parent
\* advances by N, and every byte read while a container is handled lies
\* inside that container's range, never in a sibling or in the tail of the
\* enclosing container.
C3_SubBlockBoundsReads == C3Frames /\ C3Nest /\ C3Reads /\ C3Sub

\* A container three calls deep, read in part, that ends before its parent's
\* unread bytes do, right after a step that made a sub-block and read from it.
C3_Witness ==
    /\ Len(stack) >= 3
    /\ Top.lo < Top.blk.index
    /\ Top.blk.index < Top.hi
    /\ BlkLen(stack[Len(stack) - 1].blk) > 0
    /\ lastOp.sub # NoBlk
    /\ BlkLen(lastOp.sub) > 0
    /\ \E r \in lastOp.reads : r.len = BlkLen(lastOp.sub)

NoHeatmapYet == \A i \in DOMAIN out : out[i].cb # "heatmap"

\* The start, dimensions and data of a heatmap have all been decoded by the
\* container being handled, and on_heatmap has not been invoked in the pass.
HeatmapDecoded ==
    /\ stack # << >>
    /\ Top.fn = "container_reports"
    /\ Top.loc.start.set
    /\ Top.loc.dim.set
    /\ bp.heatmap.data.len # 0
    /\ NoHeatmapYet

C6_SizeExcludesHidHeader ==
    lastOp.sub # NoBlk =>
        /\ lastOp.op \in {"hid_container", "parse_hid_container"}
              => BlkLen(lastOp.sub) = lastOp.size
        /\ lastOp.op = "parse"
              => BlkLen(lastOp.sub) = lastOp.size - SizeofIptsData
        /\ lastOp.op = "payload_frame"
              => BlkLen(lastOp.sub) = lastOp.size - SizeofIptsPayloadFrame
        /\ lastOp.op \in {"parse_stylus", "container_report", "pen_dft_window"}
              => BlkLen(lastOp.sub) = lastOp.size - SizeofIptsReport

\* C6 as amended: the size field includes the header in HID containers and
\* excludes it in legacy records: the payload of a HID container spans
\* size - 7 bytes after the header, that of an ipts_data, a payload frame or
\* a report spans `size` bytes.
C6_SizeIncludesHidHeader ==
    lastOp.sub # NoBlk =>
        /\ lastOp.op \in {"hid_container", "parse_hid_container"}
              => BlkLen(lastOp.sub) = lastOp.size - SizeofHidContainer
        /\ lastOp.op \in {"parse", "payload_frame", "parse_stylus", "container_report",
                         "pen_dft_window"}
              => BlkLen(lastOp.sub) = lastOp.size

\* A HID container with a payload, nested in the root container, whose
\* header has just been decoded.
C6_Witness ==
    /\ lastOp.op = "hid_container"
    /\ lastOp.sub # NoBlk
    /\ BlkLen(lastOp.sub) > 0
    /\ lastOp.size = BlkLen(lastOp.sub) + SizeofHidContainer

\* The callbacks on_stylus invoked for the stylus report occupying [lo, hi).
StylusCallbacksOf(lo, hi) ==
    {i \in DOMAIN out : out[i].cb = "stylus" /\ out[i].lo = lo /\ out[i].hi = hi}

\* C8: for a stylus report declaring elements = N >= 1, on_stylus is invoked
\* exactly once (with the last sample): when the loop over the elements of
\* the report is over, one callback has been invoked for the report.
C8_OnStylusOncePerReport ==
    (/\ stack # << >>
     /\ Top.fn = "stylus_elements"
     /\ Top.cnt = 0
     /\ Top.loc.elements >= 1)
        => Cardinality(StylusCallbacksOf(Top.lo, Top.hi)) = 1

\* C9: every sample passed to on_stylus has, in device units, 0 <= x <= 9600,
\* 0 <= y <= 7200 and 0 <= pressure <= 4096, whatever the raw values.
C9_SamplesInRange ==
    \A i \in DOMAIN out :
        out[i].cb = "stylus" =>
            /\ 0 <= out[i].val.x /\ out[i].val.x <= IPTS_MAX_X
            /\ 0 <= out[i].val.y /\ out[i].val.y <= IPTS_MAX_Y
            /\ 0 <= out[i].val.pressure /\ out[i].val.pressure <= IPTS_MAX_PRESSURE

\* C10: every sample passed to on_stylus has contact => proximity.
C10_ContactImpliesProximity ==
    \A i \in DOMAIN out :
        out[i].cb = "stylus" => (out[i].val.contact => out[i].val.proximity)

-----------------------------------------------------------------------------
(* Claims about the decode passes of the Reader-based parser *)

KnownFrameTypes ==
    {FrameTypeHid, FrameTypeHeatmap, FrameTypeMetadata, FrameTypeLegacy,
     FrameTypeReports}

KnownReportTypes ==
    {IPTS_REPORT_TYPE_STYLUS_V1, IPTS_REPORT_TYPE_STYLUS_V2,
     IPTS_REPORT_TYPE_HEATMAP_DIM, IPTS_REPORT_TYPE_TIMESTAMP,
     IPTS_REPORT_TYPE_HEATMAP, IPTS_REPORT_TYPE_PEN_METADATA,
     IPTS_REPORT_TYPE_PEN_DFT_WINDOW}

\* The step decodes the header of a HID frame / of a report whose type no
\* case handles and whose declared extent lies inside the reader.
UnknownFrameStep ==
    /\ mode = "hid"
    /\ stack # << >>
    /\ Top.fn \in {"hid_frame", "hid_frames"}
    /\ lastOp'.op # "none"
    /\ lastOp'.type \notin KnownFrameTypes
    /\ lastOp'.size >= SizeofHidFrame
    /\ lastOp'.size <= ReaderSize(Top.blk)

UnknownReportStep ==
    /\ mode = "hid"
    /\ stack # << >>
    /\ Top.fn = "reports"
    /\ lastOp'.op # "none"
    /\ lastOp'.type \notin KnownReportTypes
    /\ SizeofIptsReport + lastOp'.size <= ReaderSize(Top.blk)

\* The calls left when the top one has moved its reader by n bytes and done
\* nothing else; the top-level parse_hid_frame returns after its one frame.
SkippedOnly(n) ==
    /\ lastOp'.post = [Top.blk EXCEPT !.index = @ + n]
    /\ stack' = IF Top.fn = "hid_frame"
                THEN Below
                ELSE Below \o << [Top EXCEPT !.blk.index = @ + n] >>

\* C5: a HID frame or a report of an unrecognised type invokes no callback,
\* raises no error and changes no field of the parser; the parent reader
\* moves by the record's declared extent (frame: size, header included;
\* report: 4 + size) and nothing else of the pass changes, so what follows is
\* parsed as if the record were absent.
C5_UnknownRecordsSkipped ==
    [][ /\ UnknownFrameStep =>
              /\ err' = "none" /\ out' = out /\ rp' = rp
              /\ SkippedOnly(lastOp'.size)
        /\ UnknownReportStep =>
              /\ err' = "none" /\ out' = out /\ rp' = rp
              /\ SkippedOnly(SizeofIptsReport + lastOp'.size) ]_vars

\* A report of an unknown type with a payload has just been passed over,
\* after a callback of the same pass and parser fields set by earlier
\* records, with more reports behind it.
C5_Witness ==
    /\ mode = "hid"
    /\ lastOp.op = "ignored"
    /\ lastOp.type = IPTS_REPORT_TYPE_FREQUENCY_NOISE
    /\ lastOp.size > 0
    /\ stack # << >>
    /\ Top.fn = "reports"
    /\ ReaderSize(Top.blk) > 0
    /\ out # << >>
    /\ rp # RpInit

\* C7: a Reports frame whose payload is exactly 4 bytes long returns without
\* a callback and without an error, whatever the 4 bytes are and wherever
\* the frame lies in its parent: nothing is invoked or raised while the
\* payload of such a frame is being handled.
C7_FourByteReportsIgnored ==
    [][ (/\ mode = "hid"
         /\ stack # << >>
         /\ Top.fn = "reports"
         /\ Top.loc.kind = FrameTypeReports
         /\ Top.hi - Top.lo = 4)
        => (err' = "none" /\ out' = out) ]_vars

-----------------------------------------------------------------------------
(* Claims about the DFT pipeline *)

\* The samples passed to on_stylus so far, in order.
StylusOut == SelectSeq(out, LAMBDA e : e.cb = "stylus")

\* The last sample before the i-th that was in proximity, 0 if there is none.
LastProximityBefore(i) ==
    LET S == {j \in 1 .. (i - 1) : StylusOut[j].val.proximity}
    IN  IF S = {} THEN 0 ELSE CHOOSE j \in S : \A k \in S : k <= j

\* C11: in the samples the DFT pipeline passes to on_stylus, rubber never
\* toggles without an immediately preceding proximity = false snapshot: when
\* a sample in proximity has another rubber value than the last sample in
\* proximity before it, the sample right before it is out of proximity.
C11_RubberTogglesAfterSnapshot ==
    \A i \in DOMAIN StylusOut :
        LET j == LastProximityBefore(i) IN
        (/\ StylusOut[i].val.proximity
         /\ j # 0
         /\ StylusOut[j].val.rubber # StylusOut[i].val.rubber)
            => ~StylusOut[i - 1].val.proximity

\* A sample in proximity, the snapshot out of proximity, then a sample in
\* proximity with the eraser, as in the spec's scenario.
C11_Witness ==
    /\ mode = "dft"
    /\ Len(StylusOut) = 3
    /\ StylusOut[1].val.proximity /\ ~StylusOut[1].val.rubber
    /\ ~StylusOut[2].val.proximity
    /\ StylusOut[3].val.proximity /\ StylusOut[3].val.rubber

\* C12: for the DFT-sourced stylus snapshot pressure > 0 <=> contact, in
\* every state of the parser and in every sample passed to on_stylus.
C12_PressureIffContact ==
    mode = "dft" =>
        /\ (bp.stylus.pressure > 0) <=> bp.stylus.contact
        /\ \A i \in DOMAIN StylusOut :
              (StylusOut[i].val.pressure > 0) <=> StylusOut[i].val.contact

\* A pressure window whose interpolation is undefined has just ended a
\* contact that an emitted sample carried.
C12_Witness ==
    /\ mode = "dft"
    /\ lastOp.op = "process_dft"
    /\ lastOp.w.data_type = IPTS_DFT_ID_PRESSURE
    /\ lastOp.w.pf.nan
    /\ lastOp.w.num_rows >= IPTS_DFT_PRESSURE_ROWS
    /\ ~bp.stylus.contact
    /\ \E i \in DOMAIN StylusOut :
          StylusOut[i].val.contact /\ StylusOut[i].val.pressure > 0

-----------------------------------------------------------------------------
(* Claims about heatmaps *)

\* The heatmaps passed to on_heatmap in the pass so far.
HeatmapOut == SelectSeq(out, LAMBDA e : e.cb = "heatmap")

\* The dimensions a Heatmap carries: fields of its own in part_001's class,
\* the member `dim` in parser.hpp's.
DimOf(hm) == IF "dim" \in DOMAIN hm THEN hm.dim ELSE hm

\* C13: for every Heatmap passed to on_heatmap the length of the data slice
\* equals width x height of the dimensions it carries.
C13_HeatmapDataIsWidthTimesHeight ==
    \A i \in DOMAIN HeatmapOut :
        HeatmapOut[i].val.data.len =
            DimOf(HeatmapOut[i].val).width * DimOf(HeatmapOut[i].val).height

\* C14: every Heatmap passed to on_heatmap has z_max > 0, in whatever order
\* the dimensions and the heatmap data arrive.
C14_HeatmapZMaxPositive ==
    \A i \in DOMAIN HeatmapOut : DimOf(HeatmapOut[i].val).z_max > 0

\* C15: the dimensions attached to an emitted Heatmap are those of a
\* dimensions report parsed in the same pass or in the one right before it;
\* dimensions cached in an older pass are never applied.
C15_DimensionsNotStale ==
    mode = "hid" =>
        \A i \in DOMAIN HeatmapOut : HeatmapOut[i].val.dim.age <= 1

-----------------------------------------------------------------------------
(* Claims about the order and the number of the callbacks *)

\* Where on the wire the record of a callback begins: the heatmap's data
\* for on_heatmap, the report for every other callback.
WirePos(e) == IF e.cb = "heatmap" THEN e.val.data.lo ELSE e.lo

\* C16: within one input buffer the callbacks are invoked in the order
\* their records appear on the wire: a callback invoked earlier never
\* belongs to a record that lies after the record of a later callback.
C16_CallbacksInWireOrder ==
    \A i, j \in DOMAIN out : i < j => WirePos(out[i]) <= WirePos(out[j])

\* The record a callback was invoked for: which callback, and where the
\* record begins on the wire.
RecordOf(e) == [cb |-> e.cb, at |-> WirePos(e)]

\* C17: within one parse, parse_loop or parse_ithc call every callback is
\* invoked at most once per decoded record: no two callbacks of the pass
\* are the same callback for the same heatmap data record, stylus report
\* or DFT window.
C17_AtMostOncePerRecord ==
    \A i, j \in DOMAIN out : i < j => RecordOf(out[i]) # RecordOf(out[j])

-----------------------------------------------------------------------------
(* Claims about parsing a buffer again *)

\* C18: parsing the same input buffer twice produces the same sequence of
\* callback invocations with the same arguments both times: when the
\* second pass is over its callbacks are those of the first pass.
C18_SecondPassSameOutput ==
    (mode = "second" /\ buflen = Len(stack)) => out = lastOp.first

-----------------------------------------------------------------------------
(* Claims about the loops of the daemons *)

\* The loop of the daemon ends in this step.
LoopEnds == stack[1].fn # "stopped" /\ stack'[1].fn = "stopped"

\* This step parses a buffer that was read, and so parsed or passed over,
\* before the step.
ParsesAgain == lastOp'.op = "parse" /\ lastOp'.buffer <= buflen

-----------------------------------------------------------------------------
(* Claims about the state of the pen *)

\* Parser::stylus, stylus_real and stylus_imag.
PenState(p) == <<p.stylus, p.stylus_real, p.stylus_imag>>

\* C20: the running stylus snapshot and stylus_real / stylus_imag are
\* modified only by the DFT pipeline: a step that changes them handles a
\* PEN_DFT_WINDOW report; stylus reports, heatmap and dimension reports,
\* single-touch reports and the reset at the start of a parse leave them as
\* they are.
C20_PenStateChangedOnlyByDft ==
    [][ PenState(bp') # PenState(bp) => lastOp'.op = "pen_dft_window" ]_vars

\* A stylus report was decoded while the pen of the DFT pipeline was in
\* proximity, in a later parse than the one that set it, and its sample is
\* not the snapshot.
C20_Witness ==
    /\ mode = "parse"
    /\ bp.stylus.proximity
    /\ lastOp.op = "stylus_element"
    /\ ~lastOp.threw
    /\ out # << >>
    /\ out[Len(out)].cb = "stylus"
    /\ out[Len(out)].val # bp.stylus

-----------------------------------------------------------------------------
(* Claims about the DFT windows of the Reader-based parser *)

\* This step invoked one callback, of the given kind.
Invoked(cb) ==
    /\ Len(out') = Len(out) + 1
    /\ out'[Len(out')].cb = cb

\* C21: the DftWindow given to on_dft carries a group value if and only if
\* a pen metadata record was parsed before it whose seq_num and data_type
\* both equal the window's.
C21_GroupIffMatchingMetadata ==
    [][ (mode = "hid" /\ Invoked("dft")) =>
            LET dft == out'[Len(out')].val IN
            (dft.group # << >>) <=>
                /\ rp.m_pen_meta.parsed
                /\ rp.m_pen_meta.seq_num = dft.seq_num
                /\ rp.m_pen_meta.data_type = dft.type ]_vars

-----------------------------------------------------------------------------
(* Claims about the descent of the Reader-based parser *)

\* The calls of the descent that are active: an entry of stack other than
\* the first parse_hid_frame is a parse_hid_frames, parse_legacy_frame or
\* parse_reports call together with the parse_hid_frame that made it;
\* parse_reports under parse_legacy_frame is one call.
CallDepth ==
    LET one(i) == \/ stack[i].fn = "hid_frame"
                  \/ (stack[i].fn = "reports" /\ i > 1
                        /\ stack[i - 1].fn = "legacy_groups")
    IN  Len(stack) + Cardinality({i \in DOMAIN stack : ~one(i)})

\* C22: for every input buffer the nesting depth of the recursive descent
\* (active parse_hid_frame, parse_hid_frames, parse_reports and handler
\* calls) never exceeds 5.
C22_DepthAtMostFive == mode = "hid" => CallDepth <= 5

\* The step just taken made a sub-reader of size 0 and handed it to the
\* handler of the frame or report.
EmptySubReader ==
    /\ mode = "hid"
    /\ lastOp.sub # NoBlk
    /\ lastOp.sub.index = lastOp.sub.end

\* C23: a sub-reader whose size is exactly 0 causes no reads and no errors,
\* for every frame type and every report type it can be handed to.  (A read
\* from an empty reader throws, so "no reads" and "no errors" are one
\* condition: the handler does not throw.)
C23_EmptySubReaderNoError == EmptySubReader => ~lastOp.threw

-----------------------------------------------------------------------------
(* Claims about termination *)

RECURSIVE UnreadBytes(_)
\* The bytes the cursors of the given calls have not read yet.
UnreadBytes(calls) ==
    IF calls = << >> THEN 0
    ELSE (calls[1].blk.end - calls[1].blk.index) + UnreadBytes(Tail(calls))

\* What is left of a pass: the unread bytes of the cursors of its active
\* calls, and the calls that have yet to return.
PassMeasure(calls) == UnreadBytes(calls) + Len(calls)

\* C24: a decode pass (parse, parse_loop, parse_ithc) terminates, by
\* returning or by raising out_of_range: every step of a pass, each loop
\* iteration and each call, either throws or advances a cursor by at least
\* a header or returns from a call, so that what is left of the pass
\* strictly decreases and never falls below zero.
C24_EveryStepAdvances ==
    [][ stack # << >> =>
            /\ PassMeasure(stack') < PassMeasure(stack)
            /\ PassMeasure(stack') >= 0 ]_vars

\* A parse_loop pass that invoked a callback and returned after its loop
\* had run to the end of the buffer.
C24_Witness ==
    /\ mode = "parse_loop"
    /\ stack = << >>
    /\ err = "none"
    /\ out # << >>

-----------------------------------------------------------------------------
(* Claims about the cases of process_dft *)

\* This step is process_dft on a window of the given data type.
DftStep(data_type) ==
    /\ mode = "dft"
    /\ lastOp'.op = "process_dft"
    /\ lastOp'.w.data_type = data_type

\* A window that does not yield a valid position for parser p: no rows, a
\* first-row magnitude of at most 2000 on either axis, an interpolation
\* that is undefined on either axis, or no heatmap dimensions known.
NoValidPosition(w, p) ==
    \/ w.num_rows <= 0
    \/ w.xmag <= 2000
    \/ w.ymag <= 2000
    \/ w.px.nan
    \/ w.py.nan
    \/ p.num_cols = 0
    \/ p.num_rows = 0

\* The snapshot stop_stylus leaves: every flag cleared, no pressure.
Stopped(st) ==
    [st EXCEPT !.proximity = FALSE, !.contact = FALSE, !.button = FALSE,
               !.rubber = FALSE, !.pressure = 0]

\* C25: on a POSITION window that does not yield a valid position, if
\* proximity was true exactly one snapshot is emitted, with proximity,
\* contact, button and rubber false and pressure 0; if proximity was already
\* false nothing is emitted and the snapshot is unchanged.
C25_InvalidPositionStopsStylus ==
    [][ (DftStep(IPTS_DFT_ID_POSITION) /\ NoValidPosition(lastOp'.w, bp)) =>
            IF bp.stylus.proximity
            THEN /\ out' = Append(out, [cb |-> "stylus", val |-> Stopped(bp.stylus),
                                        lo |-> 0, hi |-> 0])
                 /\ bp'.stylus = Stopped(bp.stylus)
            ELSE /\ out' = out
                 /\ bp'.stylus = bp.stylus ]_vars

\* A POSITION window too weak on the x axis has just taken a pen that was in
\* contact out of proximity, with one snapshot.
C25_Witness ==
    /\ mode = "dft"
    /\ lastOp.op = "process_dft"
    /\ lastOp.w.data_type = IPTS_DFT_ID_POSITION
    /\ lastOp.w.xmag <= 2000 /\ lastOp.w.num_rows > 0
    /\ lastOp.emitted = 1
    /\ Len(out) >= 2
    /\ out[Len(out) - 1].val.proximity
    /\ out[Len(out) - 1].val.contact
    /\ ~out[Len(out)].val.proximity
    /\ bp.stylus = out[Len(out)].val

\* btn of the BUTTON case: the phasor of the window against the phasor kept
\* from the position signal.
Btn(w, p) == p.stylus_real * w.re + p.stylus_imag * w.im

\* C26: after a BUTTON window with at least one row the snapshot has
\* button = (btn < 0) and rubber = (btn > 0) when both first-row magnitudes
\* exceed 1000, and button = rubber = false otherwise, from every prior
\* stylus state.
C26_ButtonAndRubberFromPhase ==
    [][ (DftStep(IPTS_DFT_ID_BUTTON) /\ lastOp'.w.num_rows > 0) =>
            LET w == lastOp'.w
                strong == w.xmag > 1000 /\ w.ymag > 1000
            IN  /\ bp'.stylus.button = (strong /\ Btn(w, bp) < 0)
                /\ bp'.stylus.rubber = (strong /\ Btn(w, bp) > 0) ]_vars

\* C27: a PRESSURE window changes only contact and pressure of the stylus
\* snapshot: proximity, x, y, button, rubber and stylus_real / stylus_imag
\* are unchanged, and no callback is invoked.
C27_PressureChangesContactAndPressureOnly ==
    [][ DftStep(IPTS_DFT_ID_PRESSURE) =>
            /\ out' = out
            /\ bp' = [bp EXCEPT !.stylus.contact = bp'.stylus.contact,
                                !.stylus.pressure = bp'.stylus.pressure] ]_vars

\* A PRESSURE window has put a hovering pen, last reported without contact,
\* in contact, silently.
C27_Witness ==
    /\ mode = "dft"
    /\ lastOp.op = "process_dft"
    /\ lastOp.w.data_type = IPTS_DFT_ID_PRESSURE
    /\ lastOp.emitted = 0
    /\ out # << >>
    /\ out[Len(out)].val.proximity /\ ~out[Len(out)].val.contact
    /\ bp.stylus.proximity /\ bp.stylus.contact /\ bp.stylus.pressure > 0

\* C28: a PRESSURE window with fewer than 6 rows is ignored: the whole
\* stylus snapshot, contact and pressure included, is unchanged and nothing
\* is emitted.
C28_ShortPressureWindowIgnored ==
    [][ (DftStep(IPTS_DFT_ID_PRESSURE) /\ lastOp'.w.num_rows < 6) =>
            /\ out' = out
            /\ bp'.stylus = bp.stylus ]_vars

\* A PRESSURE window of 5 rows whose frequency would mean contact has left a
\* hovering pen without contact.
C28_Witness ==
    /\ mode = "dft"
    /\ lastOp.op = "process_dft"
    /\ lastOp.w.data_type = IPTS_DFT_ID_PRESSURE
    /\ lastOp.w.num_rows = 5
    /\ ~lastOp.w.pf.nan
    /\ (lastOp.w.pf.d - lastOp.w.pf.n) * IPTS_MAX_PRESSURE > lastOp.w.pf.d
    /\ bp.stylus.proximity
    /\ ~bp.stylus.contact /\ bp.stylus.pressure = 0

\* C30: stylus_real / stylus_imag are the summed centre-component phasor of
\* the most recent POSITION window that produced a valid position: such a
\* window assigns them, and every other step, a POSITION window that does
\* not yield a valid position included, leaves them unchanged.
C30_PhasorOfLastValidPosition ==
    [][ mode = "dft" =>
            IF DftStep(IPTS_DFT_ID_POSITION) /\ ~NoValidPosition(lastOp'.w, bp)
            THEN /\ bp'.stylus_real = lastOp'.w.re
                 /\ bp'.stylus_imag = lastOp'.w.im
            ELSE /\ bp'.stylus_real = bp.stylus_real
                 /\ bp'.stylus_imag = bp.stylus_imag ]_vars

\* C32: after any sequence of POSITION, BUTTON and PRESSURE windows the
\* stylus snapshot never has button and rubber both true, in any reachable
\* state and in any emitted sample.
C32_ButtonAndRubberExclusive ==
    mode = "dft" =>
        /\ ~(bp.stylus.button /\ bp.stylus.rubber)
        /\ \A i \in DOMAIN StylusOut :
              ~(StylusOut[i].val.button /\ StylusOut[i].val.rubber)

\* A BUTTON window has turned a pen that was reported erasing into a pen
\* with the button pressed.
C32_Witness ==
    /\ mode = "dft"
    /\ lastOp.op = "process_dft"
    /\ lastOp.w.data_type = IPTS_DFT_ID_BUTTON
    /\ bp.stylus.button /\ ~bp.stylus.rubber
    /\ \E i \in DOMAIN StylusOut :
          StylusOut[i].val.rubber /\ StylusOut[i].val.proximity

\* C35: whenever process_dft normalises a position, both divisors
\* num_cols - 1 and num_rows - 1 are non-zero: a POSITION sample is emitted
\* only when the dimensions last reported have width >= 2 and height >= 2.
C35_PositionDivisorsNonZero ==
    [][ (/\ DftStep(IPTS_DFT_ID_POSITION)
         /\ lastOp'.emitted = 1
         /\ bp'.stylus.proximity) =>
            /\ bp.num_cols - 1 # 0
            /\ bp.num_rows - 1 # 0
            /\ bp.num_cols >= 2
            /\ bp.num_rows >= 2 ]_vars

\* C36: btn, computed in int, equals the exact value of
\* stylus_real * (Ix + Iy) + stylus_imag * (Qx + Qy) for all int16
\* components, so its sign is that of the true dot product: after a BUTTON
\* window with a row and both magnitudes above 1000, rubber tells whether
\* the exact value is positive, and button whether it is negative unless the
\* window took the pen out of proximity.
C36_BtnIsExact ==
    [][ (/\ DftStep(IPTS_DFT_ID_BUTTON)
         /\ lastOp'.w.num_rows > 0
         /\ lastOp'.w.xmag > 1000 /\ lastOp'.w.ymag > 1000) =>
            LET exact == WideSum(WideProduct(bp.stylus_real, lastOp'.w.re),
                                 WideProduct(bp.stylus_imag, lastOp'.w.im))
            IN  /\ bp'.stylus.rubber = (WideSign(exact) > 0)
                /\ lastOp'.emitted = 0 =>
                       bp'.stylus.button = (WideSign(exact) < 0) ]_vars

-----------------------------------------------------------------------------
(* Claims about the legacy stylus reports *)

\* The StylusData emitted for a StylusV1 or StylusV2 sample carries, beside
\* the fields of the program, the mode field of the sample it was decoded from.
LegacySamples == {i \in DOMAIN out : out[i].cb = "stylus" /\ "mode" \in DOMAIN out[i].val}

\* C29: for StylusV1 and StylusV2 samples the emitted contact flag equals
\* bit 1 of the sample's mode field.
C29_LegacyContactIsModeBit ==
    \A i \in LegacySamples :
        out[i].val.contact = TestBit(out[i].val.mode, IPTS_STYLUS_REPORT_MODE_BIT_CONTACT)

-----------------------------------------------------------------------------
(* Claims about the error counter of the daemon *)

\* C31: the loop of daemon::main aborts only after 50 continuous errors: the
\* error counter stays within 0..50, a pass that parses without error resets
\* it to 0, and it reaches 50 only if each of the last 50 iterations raised
\* an exception.
C31_AbortOnlyAfterFiftyContinuousErrors ==
    mode = "daemon" =>
        /\ stack[1].errors \in 0..ErrorLimit
        /\ (lastOp.op = "parse" /\ err = "none") => stack[1].errors = 0
        /\ stack[1].errors = ErrorLimit => stack[1].continuous

\* The sample parse_stylus_v1 / _v2 emits carries, beside the fields of the
\* program, the number of elements its report declared; it is decoded from
\* sample bytes read from the report's reader.
\* C33: a stylus report whose header declares elements = 0 invokes on_stylus
\* zero times and consumes no sample bytes: no emitted sample comes from such
\* a report.
C33_NoElementsNoSample ==
    \A i \in LegacySamples :
        "elements" \in DOMAIN out[i].val => out[i].val.elements # 0

-----------------------------------------------------------------------------
(* Claims about truncated messages *)

\* This step is Parser::parse(b, ignore_truncated) on a cursor that holds an
\* ipts_data header whose size exceeds the bytes that follow the header.
TruncatedData(ignore_truncated) ==
    /\ mode \in IptsModes
    /\ stack # << >>
    /\ Top.fn \in {"parse", "parse_loop"}
    /\ Top.loc.ignore = ignore_truncated
    /\ lastOp'.op \in {"parse", "parse_truncated"}
    /\ BlockRemaining(Top.blk) >= SizeofIptsData
    /\ lastOp'.size > BlockRemaining(Top.blk) - SizeofIptsData

\* C34: in parse_ithc a message whose ipts_data header declares more bytes
\* than remain in the message's block is skipped silently, without
\* std::out_of_range and without a callback, and the loop of parse_ithc goes
\* on with the next message; parse and parse_loop raise std::out_of_range on
\* the same condition.
C34_TruncatedIgnoredInIthcOnly ==
    [][ /\ TruncatedData(TRUE) =>
               /\ err' = "none"
               /\ out' = out
               /\ stack' = Below
               /\ stack' # << >>
               /\ stack'[Len(stack')].fn = "parse_ithc"
        /\ TruncatedData(FALSE) =>
               /\ err' = "out_of_range"
               /\ out' = out
               /\ stack' = << >> ]_vars

\* A truncated message was passed over and the loop of parse_ithc has
\* another message before it.
C34_Witness ==
    /\ mode = "parse_ithc"
    /\ lastOp.op = "parse_truncated"
    /\ err = "none"
    /\ stack # << >>
    /\ Top.fn = "parse_ithc"
    /\ BlockRemaining(Top.blk) >= SizeofIthcHeader

-----------------------------------------------------------------------------
(* Claims about containers shorter than their header *)

\* This step reads the header of a container that declares a size smaller
\* than the header itself: the root or a nested HID container with
\* size < 7, an ithc message with hdr_size < 12, a HID frame of parser.hpp
\* with size < sizeof(Frame).
ShortContainer ==
    /\ stack # << >>
    /\ \/ /\ mode \in IptsModes
          /\ Top.fn = "parse_hid"
          /\ BlockRemaining(Top.blk) >= 1 + 2 + SizeofHidContainer
          /\ lastOp'.op = "parse_hid_container"
          /\ lastOp'.size < SizeofHidContainer
       \/ /\ mode \in IptsModes
          /\ Top.fn = "hid_container"
          /\ BlockRemaining(Top.blk) >= SizeofHidContainer
          /\ lastOp'.op = "hid_container"
          /\ lastOp'.size < SizeofHidContainer
       \/ /\ mode \in IptsModes
          /\ Top.fn = "parse_ithc"
          /\ BlockRemaining(Top.blk) >= SizeofIthcHeader
          /\ lastOp'.op = "ithc_message"
          /\ lastOp'.size < SizeofIthcHeader
       \/ /\ mode = "hid"
          /\ Top.fn \in {"hid_frame", "hid_frames"}
          /\ ReaderSize(Top.blk) >= SizeofHidFrame
          /\ lastOp'.op # "none"
          /\ lastOp'.size < SizeofHidFrame

\* C37: a container whose declared size is smaller than its own header
\* raises std::out_of_range: the unsigned subtraction wraps to more than any
\* count of remaining bytes, so no sub-cursor is made, no callback is
\* invoked and the cursor does not move backwards.
C37_ShortContainerThrows ==
    [][ ShortContainer =>
            /\ err' = "out_of_range"
            /\ lastOp'.threw
            /\ lastOp'.sub = NoBlk
            /\ stack' = << >>
            /\ out' = out ]_vars

\* An ithc message with hdr_size = 8 has ended the pass of parse_ithc after
\* a message before it was handled.
C37_Witness ==
    /\ mode = "parse_ithc"
    /\ lastOp.op = "ithc_message"
    /\ lastOp.size < SizeofIthcHeader
    /\ lastOp.threw
    /\ err = "out_of_range"
    /\ \E r \in lastOp.reads : r.lo > 0 /\ r.hi = r.lo + SizeofIthcHeader

-----------------------------------------------------------------------------
(* Claims about the signals of main_ipts *)

\* C38: every SIGUSR1 delivered to the daemon is followed by a call of
\* control.reset() that starts after the signal was delivered, unless the
\* daemon exits first: no reset request is lost under any interleaving of
\* the handler with the loop.
C38_NoResetRequestLost ==
    (mode = "main_ipts" /\ stack[1].pending)
        ~> (~stack[1].pending \/ stack[1].pc = "exited")

-----------------------------------------------------------------------------
(* Claims about the rows of a DFT window *)

\* C39: DFT handling never stores or reads a row at an index >= 16 or
\* >= num_rows: a window with num_rows > 16 reaches neither on_dft nor
\* process_dft, POSITION and BUTTON read row 0 only and only when
\* num_rows > 0, PRESSURE reads rows 0..5 only and only when num_rows >= 6,
\* and the three rows of the interpolation lie inside 0..5.
C39_RowsWithinWindow ==
    (mode = "rows" /\ stack[1].fn = "done") =>
        LET c == stack[1] IN
        /\ \A i \in lastOp.stored \cup lastOp.read :
              i >= 0 /\ i < 16 /\ i < c.num_rows
        /\ c.num_rows > 16 => ~lastOp.reached
        /\ (c.data_type \in {IPTS_DFT_ID_POSITION, IPTS_DFT_ID_BUTTON}
                /\ lastOp.read # {}) => (lastOp.read = {0} /\ c.num_rows > 0)
        /\ (c.data_type = IPTS_DFT_ID_PRESSURE /\ lastOp.read # {}) =>
               (lastOp.read \subseteq 0 .. 5 /\ c.num_rows >= 6)
        /\ lastOp.fit \subseteq 0 .. 5

\* A PRESSURE window of 6 rows whose last row is the strongest was
\* interpolated from rows 3, 4 and 5.
C39_Witness ==
    /\ mode = "rows"
    /\ stack[1].fn = "done"
    /\ stack[1].data_type = IPTS_DFT_ID_PRESSURE
    /\ stack[1].num_rows = 6
    /\ stack[1].maxi = 5
    /\ lastOp.op = "parse_dft"
    /\ lastOp.reached
    /\ lastOp.fit = {3, 4, 5}
    /\ lastOp.stored = 0 .. 5

=============================================================================
